---- MODULE Spec2Model ----
(***************************************************************************)
(* Android File Transfer: the renderer's transfer handlers, the four       *)
(* transfer functions of modules/transferOperations.js and the main        *)
(* process IPC handlers they talk to.                                      *)
(*                                                                         *)
(* Strings are sequences of one-character strings, so that path joins,     *)
(* slash collapsing and substring() are computed and not assumed.          *)
(*                                                                         *)
(* JavaScript runs each handler to completion: a task only gives up the    *)
(* thread at an `await ipcRenderer.invoke(...)`.  A task whose pc is not   *)
(* one of AwaitPcs is in the middle of a synchronous run, and no user      *)
(* event or IPC reply is delivered until it reaches its next await.        *)
(***************************************************************************)
EXTENDS Integers, Sequences, FiniteSets, TLC

----------------------------------------------------------------------------
(* Bounds of the model *)

\* handler invocations that can be in flight at once (the guard allows one)
MaxTasks == 2
\* user clicks (item clicks and transfer-button clicks) in one behaviour
MaxEvents == 3
\* navigation events (back buttons, double-clicks, refresh) in one behaviour
MaxNav == 1
\* length of the paths given to a path function applied on its own
MaxLen == 4
\* applications of a path function, each to the result of the one before
MaxApply == 2
\* clicks on the Android back button in a row, from one path
MaxBack == 4
\* viewer windows created in one behaviour
MaxWindows == 5

----------------------------------------------------------------------------
(* Strings and paths *)

Slash == <<"/">>

RECURSIVE Split(_)
\* String.prototype.split('/'); str is the string, bound once
Split(s) ==
  CHOOSE segs \in
    {IF \A i \in 1..Len(str) : str[i] # "/"
     THEN <<str>>
     ELSE LET k == CHOOSE i \in 1..Len(str) :
                     str[i] = "/" /\ \A j \in 1..(i-1) : str[j] # "/"
          IN <<SubSeq(str, 1, k-1)>> \o Split(SubSeq(str, k+1, Len(str)))
     : str \in {s}} : TRUE

RECURSIVE JoinSlash(_)
\* Array.prototype.join('/')
JoinSlash(segs) ==
  IF Len(segs) = 0 THEN <<>>
  ELSE IF Len(segs) = 1 THEN segs[1]
  ELSE segs[1] \o Slash \o JoinSlash(Tail(segs))

RECURSIVE CollapseSlashes(_)
\* s.replace(/\/+/g, '/')
CollapseSlashes(s) ==
  IF Len(s) < 2 THEN s
  ELSE IF s[1] = "/" /\ s[2] = "/" THEN CollapseSlashes(Tail(s))
  ELSE <<s[1]>> \o CollapseSlashes(Tail(s))

RECURSIVE ResolveDots(_, _, _)
\* normalizeString of node's path module: drops '' and '.', resolves '..'
ResolveDots(segs, acc, isAbs) ==
  IF Len(segs) = 0 THEN acc
  ELSE LET h == segs[1] IN
       IF h = <<>> \/ h = <<".">>
       THEN ResolveDots(Tail(segs), acc, isAbs)
       ELSE IF h = <<".", ".">>
       THEN IF Len(acc) > 0 /\ acc[Len(acc)] # <<".", ".">>
            THEN ResolveDots(Tail(segs), SubSeq(acc, 1, Len(acc)-1), isAbs)
            ELSE IF isAbs
            THEN ResolveDots(Tail(segs), acc, isAbs)
            ELSE ResolveDots(Tail(segs), Append(acc, h), isAbs)
       ELSE ResolveDots(Tail(segs), Append(acc, h), isAbs)

\* path.normalize (posix); the intermediate arrays are bound once each
PathNormalize(p) ==
  IF Len(p) = 0 THEN <<".">>
  ELSE LET isAbs    == p[1] = "/"
           trailing == p[Len(p)] = "/"
           Rest(body) ==
             LET body2 == IF Len(body) = 0 /\ ~isAbs THEN <<".">> ELSE body
                 body3 == IF Len(body2) > 0 /\ trailing THEN body2 \o Slash ELSE body2
             IN IF isAbs THEN Slash \o body3 ELSE body3
       IN CHOOSE out \in {Rest(body) :
                   body \in {JoinSlash(segs) :
                     segs \in {ResolveDots(parts, <<>>, isAbs) :
                       parts \in {Split(p)}}}} : TRUE

\* path.join(a, b) (posix): non-empty arguments joined by '/', then normalized
PathJoin(a, b) ==
  IF Len(a) = 0 /\ Len(b) = 0 THEN <<".">>
  ELSE IF Len(a) = 0 THEN PathNormalize(b)
  ELSE IF Len(b) = 0 THEN PathNormalize(a)
  ELSE PathNormalize(a \o Slash \o b)

\* s.replace(/\\/g, '/')
BackslashToSlash(s) == [i \in 1..Len(s) |-> IF s[i] = "\\" THEN "/" ELSE s[i]]

\* itemName.replace(/[\\/|:&><"?*]/g, '_')
SanitizeForAndroid(name) ==
  [i \in 1..Len(name) |->
     IF name[i] \in {"\\", "/", "|", ":", "&", ">", "<", "\"", "?", "*"}
     THEN "_" ELSE name[i]]

\* itemName.replace(/[\\/:*?"<>|]/g, '_')
SanitizeForLocal(name) ==
  [i \in 1..Len(name) |->
     IF name[i] \in {"\\", "/", ":", "*", "?", "\"", "<", ">", "|"}
     THEN "_" ELSE name[i]]

\* s.endsWith('/')
EndsWithSlash(s) == Len(s) > 0 /\ s[Len(s)] = "/"

\* s.substring(n)
Substring(s, n) == SubSeq(s, n + 1, Len(s))

\* the directories `mkdir -p path` brings into existence: path and its ancestors
MkdirP(p) ==
  {SubSeq(p, 1, k) : k \in {i \in 1..Len(p) : i = Len(p) \/ p[i+1] = "/"}}
    \ {<<>>}

\* all orders in which a listing can return a set of entries
Perms(S) ==
  {s \in [1..Cardinality(S) -> S] :
     \A i, j \in 1..Cardinality(S) : i # j => s[i] # s[j]}

----------------------------------------------------------------------------
(* The two file systems *)

NoDevice == "null"
Device   == "dev"

\* os.homedir(), the initial state.localPath
HomeDir == <<"/", "h">>
\* the initial state.androidPath
Sdcard == <<"/", "s", "d", "c", "a", "r", "d">>

\* the bit tested by (mode & 0x4000) === 0x4000
DirBit == 16384
\* st_mode of an entry: S_IFDIR | 0755, S_IFREG | 0644, S_IFLNK | 0777 and
\* S_IFSOCK | 0660
ModeDir  == DirBit + 493
ModeFile == 2 * DirBit + 420
ModeLink == 2 * DirBit + 8192 + 511
ModeSock == 3 * DirBit + 432

\* (mode & 0xF000) === 0x4000, the test S_ISDIR makes
IsDirModeByType(mode) == (mode \div 4096) % 16 = 4

\* (mode & 0x4000) === 0x4000
IsDirMode(mode) == (mode \div DirBit) % 2 = 1

\* an entry of a directory: isDir is what fs.Dirent.isDirectory() answers, mode
\* is the mode field of the adbkit readdir entry
File(c) == [name |-> <<c>>, isDir |-> FALSE, mode |-> ModeFile]
Dir(c)  == [name |-> <<c>>, isDir |-> TRUE, mode |-> ModeDir]
Link(c) == [name |-> <<c>>, isDir |-> FALSE, mode |-> ModeLink]
Sock(c) == [name |-> <<c>>, isDir |-> FALSE, mode |-> ModeSock]

\* Source trees: relative directory (a sequence of one-letter names) -> entries.
TreeEmpty == (<<>> :> {})
TreeFlat  == (<<>> :> {File("a"), File("b")})
TreeScen  == (<<>> :> {File("a"), Dir("s")}) @@ (<<"s">> :> {File("b")})
TreeDeep  == (<<>> :> {Dir("s")}) @@ (<<"s">> :> {File("b"), Dir("t")})
               @@ (<<"s", "t">> :> {File("c")})
\* a symbolic link and a socket, which are not directories
TreeKinds == (<<>> :> {Link("b"), Sock("c")})
Trees == {TreeEmpty, TreeFlat, TreeScen, TreeDeep, TreeKinds}

\* what the local home directory and /sdcard hold: one folder, one file
\* (the local root directory holds the home directory)
LocalTop   == {Dir("r"), File("f")}
AndroidTop == {Dir("d"), File("g")}
LocalRoot   == HomeDir \o <<"/", "r">>
AndroidRoot == Sdcard \o <<"/", "d">>

RECURSIVE RelPath(_, _)
RelPath(base, rel) ==
  IF Len(rel) = 0 THEN base
  ELSE RelPath(base \o Slash \o <<rel[1]>>, Tail(rel))

VARIABLES
  selectedDevice,       \* state.selectedDevice
  localPath,            \* state.localPath
  androidPath,          \* state.androidPath
  localSelectedItems,   \* state.localSelectedItems, in insertion order
  androidSelectedItems, \* state.androidSelectedItems, in insertion order
  isTransferring,       \* state.isTransferring
  status,               \* the text of #status-message (last setStatus)
  localDom,             \* the .file-item elements of #local-files
  androidDom,           \* the .file-item elements of #android-files
  loads,                \* listings requested by loadLocalFiles/loadAndroidFiles
  task,                 \* the invocations of the two transfer click handlers
  srcTree,              \* the tree below ~/r and below /sdcard/d
  localDirs,            \* directories created on the local disk
  localFiles,           \* files written to the local disk
  androidDirs,          \* directories created on the device
  androidFiles,         \* files pushed to the device
  events,               \* user clicks so far
  navs,                 \* navigation events (back, double-click, refresh) so far
  calc,                 \* a path function applied on its own: argument and result
  viewer                \* main process: viewerWindow and the viewer windows created

vars == <<selectedDevice, localPath, androidPath, localSelectedItems,
          androidSelectedItems, isTransferring, status, localDom, androidDom,
          loads, task, srcTree, localDirs, localFiles, androidDirs,
          androidFiles, events, navs, calc, viewer>>

Tasks == 1..MaxTasks

\* --- the local disk (fs.*Sync) ---
SrcLocalDirs ==
  {Slash, HomeDir} \cup {RelPath(LocalRoot, d) : d \in DOMAIN srcTree}
SrcLocalFiles ==
  {HomeDir \o <<"/", "f">>} \cup
  UNION {{RelPath(LocalRoot, d) \o Slash \o e.name :
            e \in {x \in srcTree[d] : ~x.isDir}} : d \in DOMAIN srcTree}

\* fs.statSync(p).isDirectory()
LocalIsDirectory(p) == p \in SrcLocalDirs \cup localDirs
\* fs.existsSync(p)
LocalExists(p) == p \in SrcLocalDirs \cup localDirs \cup SrcLocalFiles \cup localFiles

\* the entries fs.readdirSync(p, {withFileTypes: true}) finds
LocalEntries(p) ==
  IF p = Slash THEN {Dir("h")}
  ELSE IF p = HomeDir THEN LocalTop
  ELSE IF \E d \in DOMAIN srcTree : RelPath(LocalRoot, d) = p
  THEN srcTree[CHOOSE d \in DOMAIN srcTree : RelPath(LocalRoot, d) = p]
  ELSE {}

\* --- the device (adbkit client) ---
SrcAndroidDirs == {Sdcard} \cup {RelPath(AndroidRoot, d) : d \in DOMAIN srcTree}

RemoteEntry(e) ==
  [name |-> e.name, mode |-> e.mode, size |-> IF e.isDir THEN 0 ELSE 10]

\* the path the device resolves p to: repeated and trailing slashes and dots
\* do not matter to opendir
DeviceCanon(p) ==
  LET n == PathNormalize(p) IN
  IF Len(n) > 1 /\ EndsWithSlash(n) THEN SubSeq(n, 1, Len(n) - 1) ELSE n

\* p names a directory of the device
AndroidIsDirectory(p) == DeviceCanon(p) \in SrcAndroidDirs

\* the entries client.readdir(deviceId, p) finds
AndroidEntries(p) ==
  LET c == DeviceCanon(p) IN
  IF c = Sdcard THEN {RemoteEntry(e) : e \in AndroidTop}
  ELSE IF \E d \in DOMAIN srcTree : RelPath(AndroidRoot, d) = c
  THEN {RemoteEntry(e) :
          e \in srcTree[CHOOSE d \in DOMAIN srcTree : RelPath(AndroidRoot, d) = c]}
  ELSE {}

----------------------------------------------------------------------------
(* Main process: the IPC handlers.  `ok` is what the adbkit client did.   *)
(* A reply is [rejected, success]: whether ipcRenderer.invoke rejects, and *)
(* the `success` field of the value it resolves with.                      *)

\* ipcMain.handle('push-file'): catches and returns {success: false, error}
PushFileHandler(ok) == [rejected |-> FALSE, success |-> ok]

\* ipcMain.handle('pull-file'): catches and returns {success: false, error}
PullFileHandler(ok) == [rejected |-> FALSE, success |-> ok]

\* ipcMain.handle('create-directory'): catches and returns {success: false, error}
CreateDirectoryHandler(ok) == [rejected |-> FALSE, success |-> ok]

\* s.startsWith(prefix)
StartsWith(s, prefix) ==
  Len(s) >= Len(prefix) /\ SubSeq(s, 1, Len(prefix)) = prefix

RECURSIVE StripLeadingSlashes(_)
\* s.replace(/^\/+/, '')
StripLeadingSlashes(s) ==
  IF Len(s) > 0 /\ s[1] = "/" THEN StripLeadingSlashes(Tail(s)) ELSE s

\* whether the handler goes on to its fallback after a failed readdir
FallbackAllowed(normalizedPath) ==
  normalizedPath # Sdcard /\ ~StartsWith(normalizedPath, Sdcard \o Slash)

\* ListFilesHandler that throws the error of the fallback when the retry fails
ListFilesHandlerThrowsFallbackErr(dirPath, ok1, ok2) ==
  LET n0 == BackslashToSlash(dirPath)
      normalizedPath == IF StartsWith(n0, Slash) THEN n0 ELSE Slash \o n0
      fallbackPath == Sdcard \o Slash \o StripLeadingSlashes(normalizedPath)
  IN IF ok1 /\ AndroidIsDirectory(normalizedPath)
     THEN [rejected |-> FALSE, files |-> AndroidEntries(normalizedPath),
           readdirs |-> <<normalizedPath>>, error |-> "none"]
     ELSE IF FallbackAllowed(normalizedPath)
     THEN IF ok2 /\ AndroidIsDirectory(fallbackPath)
          THEN [rejected |-> FALSE, files |-> AndroidEntries(fallbackPath),
                readdirs |-> <<normalizedPath, fallbackPath>>, error |-> "none"]
          ELSE [rejected |-> TRUE, files |-> {},
                readdirs |-> <<normalizedPath, fallbackPath>>, error |-> "fallbackErr"]
     ELSE [rejected |-> TRUE, files |-> {},
           readdirs |-> <<normalizedPath>>, error |-> "innerErr"]

\* ipcMain.handle('list-files'): readdir of the normalized path, one retry under
\* /sdcard/ when that fails, and the first error re-thrown otherwise.
\* ok1, ok2: whether the first and the fallback readdir succeed.
\* The reply also tells the readdir calls made and the error that is thrown.
ListFilesHandler(dirPath, ok1, ok2) ==
  LET n0 == BackslashToSlash(dirPath)
      normalizedPath == IF StartsWith(n0, Slash) THEN n0 ELSE Slash \o n0
      fallbackPath == Sdcard \o Slash \o StripLeadingSlashes(normalizedPath)
  IN IF ok1 /\ AndroidIsDirectory(normalizedPath)
     THEN [rejected |-> FALSE, files |-> AndroidEntries(normalizedPath),
           readdirs |-> <<normalizedPath>>, error |-> "none"]
     ELSE IF FallbackAllowed(normalizedPath)
     THEN IF ok2 /\ AndroidIsDirectory(fallbackPath)
          THEN [rejected |-> FALSE, files |-> AndroidEntries(fallbackPath),
                readdirs |-> <<normalizedPath, fallbackPath>>, error |-> "none"]
          ELSE [rejected |-> TRUE, files |-> {},
                readdirs |-> <<normalizedPath, fallbackPath>>, error |-> "innerErr"]
     ELSE [rejected |-> TRUE, files |-> {},
           readdirs |-> <<normalizedPath>>, error |-> "innerErr"]

----------------------------------------------------------------------------
(* Renderer: one record per invocation of a transfer click handler *)

NoRet == [kind |-> "none", success |-> 0, errors |-> 0]

\* the call before was none, or had other arguments
NoPrev == [same |-> FALSE, ret |-> NoRet, clean |-> FALSE]

IdleTask ==
  [pc |-> "idle",
   fn |-> "none",          \* "toAndroid" | "toLocal"
   successCount |-> 0, errorCount |-> 0, total |-> 0, current |-> 0,
   pos |-> 0,              \* entries of the selection Set the for-of has passed
   itemName |-> <<>>,
   startSel |-> <<>>,      \* the selection Set when the handler started
   startLocalPath |-> <<>>,    \* state.localPath when the handler started
   startAndroidPath |-> <<>>,  \* state.androidPath when the handler started
   attempted |-> {},       \* the items the for-of has visited
   skipped |-> {},         \* the items that were missing or could not be stat-ed
   percent |-> 0,          \* the last percentage passed to updateProgressBar
   \* the transfer function being awaited: its arguments and its locals
   src |-> <<>>, dst |-> <<>>,
   totalFiles |-> 0, processedFiles |-> 0, fSuccess |-> 0, fErrors |-> 0,
   stk |-> <<>>,           \* frames of processDirectory / listAndroidFilesRecursively
   fileList |-> [files |-> <<>>, directories |-> <<>>],
   k |-> 0,                \* index of the directory / file loop of the pull
   \* what the current (or last) call of a transfer function did
   call |-> "none",        \* "pushFolder" | "pullFolder" | "pushFile" | "pullFile"
   ops |-> <<>>,           \* requests issued, in order: [op, path, ok]
   progress |-> <<>>,      \* processedFiles values passed to setStatus
   scan |-> "none",        \* "ok" | "failed"
   counted |-> <<>>,       \* the directories countFiles has called readdirSync on
   ret |-> NoRet,          \* "resolved" {success, errors} | "rejected" | "true" | "false"
   \* whether the call before the current one was the same call with the same
   \* arguments, and then its result and whether every request of it succeeded
   prev |-> NoPrev,
   \* the bridge requests this invocation has issued and that have not settled
   pending |-> <<>>]

\* pcs at which a task is suspended in `await ipcRenderer.invoke(...)`
AwaitPcs == {"await_mkbase", "await_mksub", "await_push", "await_pushfile",
             "await_list", "await_pull", "await_pullfile", "await_unanswered"}

\* no task is in the middle of a synchronous run
Quiescent == \A t \in Tasks : task[t].pc \in AwaitPcs \cup {"idle"}

\* the slot a new invocation takes
FreeSlot(t) ==
  /\ task[t].pc = "idle"
  /\ \A u \in Tasks : u < t => task[u].pc # "idle"

Msg(m, a, b) == [msg |-> m, a |-> a, b |-> b]

\* ipcRenderer.invoke(channel, ...) is called / the promise it returned settles
Issued(r, channel) == [r EXCEPT !.pending = Append(@, channel)]
Settled(r) == [r EXCEPT !.pending = Tail(@)]

Op(o, p, ok) == [op |-> o, path |-> p, ok |-> ok]

\* main.js at start: `let viewerWindow = null`, and no viewer window exists.
\* ref is the window viewerWindow refers to (0 for null); a window is "none"
\* (not created), "open", "closing" (close() was called, 'closed' is still to
\* come) or "closed" (destroyed)
NoViewer == [ref |-> 0, wins |-> [w \in 1..MaxWindows |-> "none"]]

\* no path function has been applied on its own
NoCalc == [fn |-> "none", arg |-> <<>>, out |-> <<>>, n |-> 0]

Init ==
  /\ selectedDevice = NoDevice
  /\ localPath = HomeDir
  /\ androidPath = Sdcard
  /\ localSelectedItems = <<>>
  /\ androidSelectedItems = <<>>
  /\ isTransferring = FALSE
  /\ status = Msg("Ready", 0, 0)
  /\ localDom = LocalTop
  /\ androidDom = {}
  /\ loads = {}
  /\ task = [t \in Tasks |-> IdleTask]
  /\ srcTree \in Trees
  /\ localDirs = {}
  /\ localFiles = {}
  /\ androidDirs = {}
  /\ androidFiles = {}
  /\ events = 0
  /\ navs = 0
  /\ calc = NoCalc
  /\ viewer = NoViewer

----------------------------------------------------------------------------
(* Renderer: listings of the two panes *)

\* fileSystem.renderFileList: one .file-item per entry, data-name and data-is-dir
RenderLocal(entries) == entries
RenderAndroid(files) ==
  {[name |-> e.name, isDir |-> IsDirMode(e.mode)] : e \in files}

\* a listing requested by loadLocalFiles / loadAndroidFiles settles and is rendered;
\* handleItemDoubleClick, which awaited it, then sets its 'Navigated to' status
LoadDone ==
  /\ Quiescent
  /\ \E l \in loads :
       /\ loads' = loads \ {l}
       /\ IF l.side = "local"
          THEN \E ok \in BOOLEAN :
                 /\ localDom' = IF ok /\ l.path \in SrcLocalDirs
                                THEN RenderLocal(LocalEntries(l.path)) ELSE {}
                 /\ status' = IF l.nav THEN Msg("Navigated to", 0, 0)
                              ELSE IF ok /\ l.path \in SrcLocalDirs THEN status
                              ELSE Msg("Error loading local files", 0, 0)
                 /\ UNCHANGED androidDom
          ELSE \E ok1, ok2 \in BOOLEAN :
                 LET r == ListFilesHandler(l.path, ok1, ok2) IN
                 /\ androidDom' = IF r.rejected THEN {} ELSE RenderAndroid(r.files)
                 /\ status' = IF l.nav THEN Msg("Navigated to", 0, 0)
                              ELSE IF r.rejected
                              THEN Msg("Error loading Android files", 0, 0)
                              ELSE status
                 /\ UNCHANGED localDom
  /\ UNCHANGED <<viewer, calc, navs, selectedDevice, localPath, androidPath, localSelectedItems,
                 androidSelectedItems, isTransferring, task, srcTree, localDirs,
                 localFiles, androidDirs, androidFiles, events>>

\* deviceSelect 'change': a device is picked in the dropdown
DeviceChange ==
  /\ Quiescent
  /\ selectedDevice = NoDevice
  /\ selectedDevice' = Device
  /\ status' = Msg("Selected device", 0, 0)
  \* loadAndroidFiles()
  /\ androidDom' = {}
  /\ loads' = loads \cup {[side |-> "android", path |-> androidPath, nav |-> FALSE]}
  /\ UNCHANGED <<viewer, calc, navs, localPath, androidPath, localSelectedItems, androidSelectedItems,
                 isTransferring, localDom, task, srcTree, localDirs, localFiles,
                 androidDirs, androidFiles, events>>

----------------------------------------------------------------------------
(* Renderer: selection.  The Sets are iterated live by a running handler,  *)
(* so a change moves the handler's for-of cursor the way the Set iterator  *)
(* of ECMAScript does: clear() restarts it, delete() of a passed entry     *)
(* shifts it, add() appends behind it.                                     *)

SelOf(isLocal) == IF isLocal THEN localSelectedItems ELSE androidSelectedItems
DomOf(isLocal) == IF isLocal THEN localDom ELSE androidDom

Iterates(t, isLocal) ==
  task[t].pc # "idle" /\ task[t].fn = (IF isLocal THEN "toAndroid" ELSE "toLocal")

IndexOf(seq, x) ==
  IF \E i \in 1..Len(seq) : seq[i] = x
  THEN CHOOSE i \in 1..Len(seq) : seq[i] = x
  ELSE 0

RemoveAt(seq, i) == SubSeq(seq, 1, i-1) \o SubSeq(seq, i+1, Len(seq))

\* click on a .file-item without modifier: clear the Set, add the item
ItemClick(isLocal, name) ==
  /\ Quiescent
  /\ events < MaxEvents
  /\ name \in {e.name : e \in DomOf(isLocal)}
  /\ events' = events + 1
  /\ IF isLocal
     THEN localSelectedItems' = <<name>> /\ UNCHANGED androidSelectedItems
     ELSE androidSelectedItems' = <<name>> /\ UNCHANGED localSelectedItems
  /\ task' = [t \in Tasks |->
                IF Iterates(t, isLocal) THEN [task[t] EXCEPT !.pos = 0] ELSE task[t]]
  /\ UNCHANGED <<viewer, calc, navs, selectedDevice, localPath, androidPath, isTransferring, status,
                 localDom, androidDom, loads, srcTree, localDirs, localFiles,
                 androidDirs, androidFiles>>

\* click with Ctrl/Cmd: toggle the item
ItemCtrlClick(isLocal, name) ==
  /\ Quiescent
  /\ events < MaxEvents
  /\ name \in {e.name : e \in DomOf(isLocal)}
  /\ events' = events + 1
  /\ LET sel == SelOf(isLocal)
         idx == IndexOf(sel, name)
         new == IF idx > 0 THEN RemoveAt(sel, idx) ELSE Append(sel, name)
     IN /\ IF isLocal
           THEN localSelectedItems' = new /\ UNCHANGED androidSelectedItems
           ELSE androidSelectedItems' = new /\ UNCHANGED localSelectedItems
        /\ task' = [t \in Tasks |->
                      IF Iterates(t, isLocal) /\ idx > 0 /\ idx <= task[t].pos
                      THEN [task[t] EXCEPT !.pos = @ - 1] ELSE task[t]]
  /\ UNCHANGED <<viewer, calc, navs, selectedDevice, localPath, androidPath, isTransferring, status,
                 localDom, androidDom, loads, srcTree, localDirs, localFiles,
                 androidDirs, androidFiles>>

----------------------------------------------------------------------------
(* Renderer: the two transfer click handlers (renderer.js)                 *)

\* GuardToAndroid without its isTransferring test
GuardToAndroidNoFlag ==
  IF selectedDevice = NoDevice THEN "No device selected"
  ELSE IF Len(localSelectedItems) = 0 THEN "No items selected for transfer"
  ELSE "pass"

\* the three early returns of the transferToAndroidBtn handler, in order
GuardToAndroid ==
  IF selectedDevice = NoDevice THEN "No device selected"
  ELSE IF Len(localSelectedItems) = 0 THEN "No items selected for transfer"
  ELSE IF isTransferring THEN "Transfer already in progress"
  ELSE "pass"

\* GuardToLocal with the isTransferring test moved to the front
GuardToLocalFlagFirst ==
  IF isTransferring THEN "Transfer already in progress"
  ELSE IF selectedDevice = NoDevice THEN "No device selected"
  ELSE IF Len(androidSelectedItems) = 0 THEN "No items selected for transfer"
  ELSE "pass"

\* the three early returns of the transferToLocalBtn handler, in order
GuardToLocal ==
  IF selectedDevice = NoDevice THEN "No device selected"
  ELSE IF Len(androidSelectedItems) = 0 THEN "No items selected for transfer"
  ELSE IF isTransferring THEN "Transfer already in progress"
  ELSE "pass"

\* click on a transfer button: the guards, then up to the head of the for-of
ClickTransfer(t, toAndroid) ==
  /\ Quiescent
  /\ events < MaxEvents
  /\ FreeSlot(t)
  /\ events' = events + 1
  /\ LET g == IF toAndroid THEN GuardToAndroid ELSE GuardToLocal IN
     IF g # "pass"
     THEN /\ status' = Msg(g, 0, 0)
          /\ UNCHANGED <<isTransferring, task>>
     ELSE /\ isTransferring' = TRUE
          /\ status' = Msg("Preparing transfer", 0, 0)
          /\ task' = [task EXCEPT ![t] =
                        [IdleTask EXCEPT
                           !.pc = "h_loop",
                           !.fn = IF toAndroid THEN "toAndroid" ELSE "toLocal",
                           !.total = Len(SelOf(toAndroid)),
                           !.startSel = SelOf(toAndroid),
                           !.startLocalPath = localPath,
                           !.startAndroidPath = androidPath]]
  /\ UNCHANGED <<viewer, calc, navs, selectedDevice, localPath, androidPath, localSelectedItems,
                 androidSelectedItems, localDom, androidDom, loads, srcTree,
                 localDirs, localFiles, androidDirs, androidFiles>>

\* transferToAndroidBtn click handler
ClickTransferToAndroid(t) == ClickTransfer(t, TRUE)

\* transferToLocalBtn click handler
ClickTransferToLocal(t) == ClickTransfer(t, FALSE)

\* a task record at the start of a call of one of the four transfer functions
EnterCall(r, call, src, dst, pc) ==
  [r EXCEPT !.pc = pc, !.call = call, !.src = src, !.dst = dst,
            !.totalFiles = 0, !.processedFiles = 0, !.fSuccess = 0, !.fErrors = 0,
            !.stk = <<>>, !.fileList = [files |-> <<>>, directories |-> <<>>],
            !.k = 0, !.ops = <<>>, !.progress = <<>>, !.scan = "none",
            !.counted = <<>>, !.ret = NoRet,
            !.prev = IF r.call = call /\ r.src = src /\ r.dst = dst
                     THEN [same |-> TRUE, ret |-> r.ret,
                           clean |-> \A i \in 1..Len(r.ops) : r.ops[i].ok]
                     ELSE NoPrev]

\* the isDirectory test of the transferToLocalBtn handler: data-is-dir of the
\* rendered element, or "has no extension" when the element is not found
AndroidItemIsDirectory(itemName) ==
  IF \E e \in androidDom : e.name = itemName
  THEN (CHOOSE e \in androidDom : e.name = itemName).isDir
  ELSE \A i \in 1..Len(itemName) : itemName[i] # "."

\* what `fs.existsSync(p)` and `fs.statSync(p).isDirectory()` of the
\* transferToAndroidBtn handler can give: the item is missing, statSync throws,
\* or the item is a directory or a file
StatOutcomes(p) ==
  IF ~LocalExists(p) THEN {"missing"}
  ELSE {"throws", IF LocalIsDirectory(p) THEN "directory" ELSE "file"}

\* one turn of `for (const itemName of state.<side>SelectedItems)`, up to the
\* call of a transfer function (or to the `continue` of a missing item)
HandlerNextItem(t) ==
  /\ task[t].pc = "h_loop"
  /\ LET r == task[t]
         toAndroid == r.fn = "toAndroid"
         sel == SelOf(toAndroid)
     IN
     /\ r.pos < Len(sel)
     /\ LET itemName == sel[r.pos + 1]
            r1 == [r EXCEPT !.pos = @ + 1, !.current = @ + 1, !.itemName = itemName,
                            !.attempted = @ \cup {itemName}]
            \* updateProgressBar(Math.floor((current - 1) / total * 100), ...)
            r2 == [r1 EXCEPT !.percent = ((r1.current - 1) * 100) \div r1.total]
        IN
        IF toAndroid
        THEN \E localItemPath \in {PathJoin(localPath, itemName)},
                androidTargetPath \in
                  {CollapseSlashes(androidPath \o Slash \o SanitizeForAndroid(itemName))} :
                \E st \in StatOutcomes(localItemPath) :
                  IF st \in {"missing", "throws"}
                  THEN /\ task' = [task EXCEPT ![t] =
                                     [r1 EXCEPT !.errorCount = @ + 1,
                                                !.skipped = @ \cup {itemName}]]
                       /\ UNCHANGED status
                  ELSE /\ status' = Msg("Transferring (current/total)",
                                        r1.current, r1.total)
                       /\ task' = [task EXCEPT ![t] =
                            IF st = "directory"
                            THEN EnterCall(r1, "pushFolder", localItemPath,
                                           androidTargetPath, "pf_entry")
                            ELSE Issued(EnterCall(r1, "pushFile", localItemPath,
                                                  androidTargetPath, "await_pushfile"),
                                        "push-file")]
        ELSE \E androidItemPath \in {BackslashToSlash(PathJoin(androidPath, itemName))},
                localTargetPath \in {PathJoin(localPath, SanitizeForLocal(itemName))} :
                /\ status' = Msg("Transferring (current/total)", r1.current, r1.total)
                /\ task' = [task EXCEPT ![t] =
                     IF AndroidItemIsDirectory(itemName)
                     THEN EnterCall(r1, "pullFolder", androidItemPath,
                                    localTargetPath, "lf_entry")
                     ELSE Issued(EnterCall(r1, "pullFile", androidItemPath,
                                           localTargetPath, "await_pullfile"),
                                 "pull-file")]
  /\ UNCHANGED <<viewer, calc, navs, selectedDevice, localPath, androidPath, localSelectedItems,
                 androidSelectedItems, isTransferring, localDom, androidDom, loads,
                 srcTree, localDirs, localFiles, androidDirs, androidFiles, events>>

\* HandlerSummary that also sends the Android pane back to /sdcard
HandlerSummaryResetsPath(t) ==
  /\ task[t].pc = "h_loop"
  /\ task[t].pos >= Len(SelOf(task[t].fn = "toAndroid"))
  /\ status' = Msg("Transfer complete. Success: a, Errors: b",
                   task[t].successCount, task[t].errorCount)
  /\ task' = [task EXCEPT ![t].pc = "h_refresh"]
  /\ androidPath' = Sdcard
  /\ UNCHANGED <<viewer, calc, navs, selectedDevice, localPath, localSelectedItems,
                 androidSelectedItems, isTransferring, localDom, androidDom, loads,
                 srcTree, localDirs, localFiles, androidDirs, androidFiles, events>>

\* the for-of is exhausted: updateProgressBar(100), the summary status
HandlerSummary(t) ==
  /\ task[t].pc = "h_loop"
  /\ task[t].pos >= Len(SelOf(task[t].fn = "toAndroid"))
  /\ status' = Msg("Transfer complete. Success: a, Errors: b",
                   task[t].successCount, task[t].errorCount)
  /\ task' = [task EXCEPT ![t].pc = "h_refresh", ![t].percent = 100]
  /\ UNCHANGED <<viewer, calc, navs, selectedDevice, localPath, androidPath, localSelectedItems,
                 androidSelectedItems, isTransferring, localDom, androidDom, loads,
                 srcTree, localDirs, localFiles, androidDirs, androidFiles, events>>

\* clearSelections that forgets state.androidSelectedItems
ClearSelectionsLocalOnly == [local |-> <<>>, android |-> androidSelectedItems]

\* state.js clearSelections(): both Sets are emptied
ClearSelections == [local |-> <<>>, android |-> <<>>]

\* HandlerFinally without `state.isTransferring = false`
HandlerFinallyKeepsFlag(t) ==
  /\ task[t].pc = "h_refresh"
  /\ localDom' = {}
  /\ androidDom' = {}
  /\ loads' = loads \cup {[side |-> "local", path |-> localPath, nav |-> FALSE],
                          [side |-> "android", path |-> androidPath, nav |-> FALSE]}
  /\ status' = Msg("Transfer completed and views refreshed", 0, 0)
  /\ localSelectedItems' = ClearSelections.local
  /\ androidSelectedItems' = ClearSelections.android
  /\ task' = [u \in Tasks |->
                IF u = t THEN IdleTask ELSE [task[u] EXCEPT !.pos = 0]]
  /\ UNCHANGED <<viewer, calc, navs, selectedDevice, localPath, androidPath, srcTree,
                 localDirs, localFiles, androidDirs, androidFiles, events,
                 isTransferring>>

\* loadLocalFiles(); loadAndroidFiles(); the last setStatus; then the finally
\* block: state.isTransferring = false; clearSelections()
HandlerFinally(t) ==
  /\ task[t].pc = "h_refresh"
  /\ localDom' = {}
  /\ androidDom' = {}
  /\ loads' = loads \cup {[side |-> "local", path |-> localPath, nav |-> FALSE],
                          [side |-> "android", path |-> androidPath, nav |-> FALSE]}
  /\ status' = Msg("Transfer completed and views refreshed", 0, 0)
  /\ isTransferring' = FALSE
  /\ localSelectedItems' = ClearSelections.local
  /\ androidSelectedItems' = ClearSelections.android
  /\ task' = [u \in Tasks |->
                IF u = t THEN IdleTask ELSE [task[u] EXCEPT !.pos = 0]]
  /\ UNCHANGED <<viewer, calc, navs, selectedDevice, localPath, androidPath, srcTree, localDirs,
                 localFiles, androidDirs, androidFiles, events>>

\* FolderReturn that leaves the for-of when the transfer function has thrown
FolderReturnLeavesLoop(r, res) ==
  [r EXCEPT !.pc = IF res.kind = "rejected" THEN "h_refresh" ELSE "h_loop",
            !.stk = <<>>, !.ret = res,
            !.successCount = IF res.kind = "rejected" THEN @ ELSE @ + res.success,
            !.errorCount = IF res.kind = "rejected" THEN @ + 1 ELSE @ + res.errors]

\* the handler's code after `await transferOps.transfer...Folder...(...)`:
\* the counts are added, or the catch (itemErr) counts one error; then
\* updateProgressBar(Math.floor(current / total * 100), ...)
FolderReturn(r, res) ==
  [r EXCEPT !.pc = "h_loop", !.stk = <<>>, !.ret = res,
            !.percent = (r.current * 100) \div r.total,
            !.successCount = IF res.kind = "rejected" THEN @ ELSE @ + res.success,
            !.errorCount = IF res.kind = "rejected" THEN @ + 1 ELSE @ + res.errors]

\* the handler's code after `await transferOps.transfer...File...(...)`
FileReturn(r, success) ==
  [r EXCEPT !.pc = "h_loop",
            !.percent = (r.current * 100) \div r.total,
            !.ret = [kind |-> IF success THEN "true" ELSE "false",
                     success |-> 0, errors |-> 0],
            !.successCount = IF success THEN @ + 1 ELSE @,
            !.errorCount = IF success THEN @ ELSE @ + 1]

Resolved(s, e) == [kind |-> "resolved", success |-> s, errors |-> e]
Rejected == [kind |-> "rejected", success |-> 0, errors |-> 0]

----------------------------------------------------------------------------
(* transferLocalFileToAndroid / transferLocalFolderToAndroid               *)

SetToSeq(S) == CHOOSE q \in Perms(S) : TRUE

RECURSIVE CountFiles(_, _)
RECURSIVE CountItems(_, _, _)
\* countFiles(dirPath): the number of files below dirPath, -1 when a
\* readdirSync throws; `unreadable` are the directories whose listing fails
CountFiles(dirPath, unreadable) ==
  IF dirPath \in unreadable \/ dirPath \notin SrcLocalDirs
  THEN -1
  ELSE CHOOSE n \in {CountItems(dirPath, items, unreadable) :
                       items \in {SetToSeq(LocalEntries(dirPath))}} : TRUE
\* the items.forEach of countFiles
CountItems(dirPath, items, unreadable) ==
  IF Len(items) = 0 THEN 0
  ELSE LET c == IF items[1].isDir
                THEN CHOOSE n \in {CountFiles(fullPath, unreadable) :
                                     fullPath \in {PathJoin(dirPath, items[1].name)}} : TRUE
                ELSE 1
           rest == CountItems(dirPath, Tail(items), unreadable)
       IN IF c < 0 \/ rest < 0 THEN -1 ELSE c + rest

RECURSIVE CountFilesReads(_, _)
RECURSIVE CountItemsReads(_, _, _)
\* the directories countFiles(dirPath) calls fs.readdirSync on, in order; a
\* readdirSync that throws ends the whole count
CountFilesReads(dirPath, unreadable) ==
  IF dirPath \in unreadable \/ dirPath \notin SrcLocalDirs
  THEN <<dirPath>>
  ELSE CHOOSE reads \in {<<dirPath>> \o CountItemsReads(dirPath, items, unreadable) :
                           items \in {SetToSeq(LocalEntries(dirPath))}} : TRUE
\* the readdirSync calls of the items.forEach of countFiles
CountItemsReads(dirPath, items, unreadable) ==
  IF Len(items) = 0 THEN <<>>
  ELSE IF items[1].isDir
  THEN CHOOSE reads \in
         {CountFilesReads(fullPath, unreadable)
            \o (IF CountFiles(fullPath, unreadable) < 0 THEN <<>>
                ELSE CountItemsReads(dirPath, Tail(items), unreadable)) :
          fullPath \in {PathJoin(dirPath, items[1].name)}} : TRUE
  ELSE CountItemsReads(dirPath, Tail(items), unreadable)

LocalDirsBelow(p) == {d \in SrcLocalDirs : StartsWith(d, p)}

\* transferLocalFolderToAndroid, from its entry to `await invoke('create-directory')`
\* of the base folder: countFiles, then the request
PushFolderEntry(t) ==
  /\ task[t].pc = "pf_entry"
  /\ \E unreadable \in SUBSET LocalDirsBelow(task[t].src) :
       \E n \in {CountFiles(task[t].src, unreadable)},
          reads \in {CountFilesReads(task[t].src, unreadable)} :
       LET r == [task[t] EXCEPT !.counted = reads]
       IN IF n < 0
          THEN /\ status' = Msg("Error counting files", 0, 0)
               /\ task' = [task EXCEPT ![t] =
                             FolderReturn([r EXCEPT !.scan = "failed"], Resolved(0, 1))]
          ELSE /\ status' = Msg("Preparing to transfer n files", n, 0)
               /\ task' = [task EXCEPT ![t] =
                             Issued([r EXCEPT !.scan = "ok", !.totalFiles = n,
                                              !.pc = "await_mkbase"],
                                    "create-directory")]
  /\ UNCHANGED <<viewer, calc, navs, selectedDevice, localPath, androidPath, localSelectedItems,
                 androidSelectedItems, isTransferring, localDom, androidDom, loads,
                 srcTree, localDirs, localFiles, androidDirs, androidFiles, events>>

\* a frame of processDirectory(localDir, androidDir) at the head of its for loop
PdFrame(localDir, androidDir, items) ==
  [localDir |-> localDir, androidDir |-> androidDir, items |-> items, i |-> 1]

\* what fs.readdirSync(dir) can do: throw ("throw"), or return the entries in
\* some order
ReaddirSyncOutcomes(dir) ==
  {[thrown |-> TRUE, items |-> <<>>]} \cup
  (IF dir \in SrcLocalDirs
   THEN {[thrown |-> FALSE, items |-> q] : q \in Perms(LocalEntries(dir))}
   ELSE {})

\* the create-directory of the base folder settles; then
\* `return processDirectory(localFolderPath, androidFolderPath)` runs to its first
\* await: a readdirSync that throws there rejects the whole function
ResumeMkBase(t) ==
  /\ Quiescent
  /\ task[t].pc = "await_mkbase"
  /\ \E ok \in BOOLEAN, rd \in ReaddirSyncOutcomes(task[t].src) :
       LET r == Settled(task[t])
           reply == CreateDirectoryHandler(ok)
           r0 == [r EXCEPT !.ops = Append(@, Op("mkdir", r.dst, ok))]
           r1 == IF reply.rejected THEN r0
                 ELSE [r0 EXCEPT !.ops = Append(@, Op("readdirSync", r.src, ~rd.thrown))]
       IN /\ androidDirs' = IF ok THEN androidDirs \cup MkdirP(r.dst) ELSE androidDirs
          /\ IF reply.rejected
             THEN /\ status' = Msg("Error creating folder on Android", 0, 0)
                  /\ task' = [task EXCEPT ![t] = FolderReturn(r1, Resolved(0, 1))]
             ELSE IF rd.thrown
             THEN /\ UNCHANGED status
                  /\ task' = [task EXCEPT ![t] = FolderReturn(r1, Rejected)]
             ELSE /\ UNCHANGED status
                  /\ task' = [task EXCEPT ![t] =
                       [r1 EXCEPT !.pc = "pd_loop",
                                  !.stk = <<PdFrame(r.src, r.dst, rd.items)>>]]
  /\ UNCHANGED <<viewer, calc, navs, selectedDevice, localPath, androidPath, localSelectedItems,
                 androidSelectedItems, isTransferring, localDom, androidDom, loads,
                 srcTree, localDirs, localFiles, androidFiles, events>>

\* the top frame of the stack, and the stack with its top frame's index advanced
Top(stk) == stk[Len(stk)]
\* Advance that leaves the index of the for loop where it is
AdvanceStays(stk) == stk
Advance(stk) == [stk EXCEPT ![Len(stk)].i = @ + 1]
Pop(stk) == SubSeq(stk, 1, Len(stk) - 1)

\* ProcessDirectoryStep that does not await the push-file of a file
ProcessDirectoryStepNoAwait(t) ==
  /\ task[t].pc = "pd_loop"
  /\ LET r == task[t]
         f == Top(r.stk)
     IN IF f.i <= Len(f.items)
        THEN task' = [task EXCEPT ![t] =
                        IF f.items[f.i].isDir
                        THEN Issued([r EXCEPT !.pc = "await_mksub"], "create-directory")
                        ELSE Issued([r EXCEPT !.stk = Advance(r.stk)], "push-file")]
        ELSE IF Len(r.stk) = 1
        THEN task' = [task EXCEPT ![t] =
                        FolderReturn(r, Resolved(r.fSuccess, r.fErrors))]
        ELSE task' = [task EXCEPT ![t] =
                        [r EXCEPT !.stk = Advance(Pop(r.stk)),
                                  !.fSuccess = @ + r.fSuccess,
                                  !.fErrors = @ + r.fErrors]]
  /\ UNCHANGED <<viewer, calc, navs, selectedDevice, localPath, androidPath, localSelectedItems,
                 androidSelectedItems, isTransferring, status, localDom, androidDom,
                 loads, srcTree, localDirs, localFiles, androidDirs, androidFiles,
                 events>>

\* processDirectory at the head of `for (const item of items)`: the next item's
\* request is issued, or the loop is over and the frame returns
\* {success: successCount, errors: errorCount} (the counters of the enclosing
\* function) to its caller, which adds them to the same counters
ProcessDirectoryStep(t) ==
  /\ task[t].pc = "pd_loop"
  /\ LET r == task[t]
         f == Top(r.stk)
     IN IF f.i <= Len(f.items)
        THEN task' = [task EXCEPT ![t] =
                        IF f.items[f.i].isDir
                        THEN Issued([r EXCEPT !.pc = "await_mksub"], "create-directory")
                        ELSE Issued([r EXCEPT !.pc = "await_push"], "push-file")]
        ELSE IF Len(r.stk) = 1
        THEN task' = [task EXCEPT ![t] =
                        FolderReturn(r, Resolved(r.fSuccess, r.fErrors))]
        ELSE task' = [task EXCEPT ![t] =
                        [r EXCEPT !.stk = Advance(Pop(r.stk)),
                                  !.fSuccess = @ + r.fSuccess,
                                  !.fErrors = @ + r.fErrors]]
  /\ UNCHANGED <<viewer, calc, navs, selectedDevice, localPath, androidPath, localSelectedItems,
                 androidSelectedItems, isTransferring, status, localDom, androidDom,
                 loads, srcTree, localDirs, localFiles, androidDirs, androidFiles,
                 events>>

\* the create-directory of a subdirectory settles; processDirectory is entered
\* for it, and a throw in there is caught by this item's try: errorCount++
ResumeMkSub(t) ==
  /\ Quiescent
  /\ task[t].pc = "await_mksub"
  /\ LET r == Settled(task[t])
         f == Top(r.stk)
         item == f.items[f.i]
     IN \E localItemPath \in {PathJoin(f.localDir, item.name)},
           androidItemPath \in {f.androidDir \o Slash \o item.name} :
        \E ok \in BOOLEAN, rd \in ReaddirSyncOutcomes(localItemPath) :
          LET reply == CreateDirectoryHandler(ok)
              r0 == [r EXCEPT !.ops = Append(@, Op("mkdir", androidItemPath, ok))]
              r1 == IF reply.rejected THEN r0
                    ELSE [r0 EXCEPT !.ops =
                            Append(@, Op("readdirSync", localItemPath, ~rd.thrown))]
          IN /\ androidDirs' = IF ok THEN androidDirs \cup MkdirP(androidItemPath)
                               ELSE androidDirs
             /\ IF reply.rejected \/ rd.thrown
                THEN task' = [task EXCEPT ![t] =
                                [r1 EXCEPT !.pc = "pd_loop", !.fErrors = @ + 1,
                                           !.stk = Advance(r.stk)]]
                ELSE task' = [task EXCEPT ![t] =
                                [r1 EXCEPT !.pc = "pd_loop",
                                           !.stk = Append(r.stk,
                                              PdFrame(localItemPath, androidItemPath,
                                                      rd.items))]]
  /\ UNCHANGED <<viewer, calc, navs, selectedDevice, localPath, androidPath, localSelectedItems,
                 androidSelectedItems, isTransferring, status, localDom, androidDom,
                 loads, srcTree, localDirs, localFiles, androidFiles, events>>

\* the push-file of a file of the folder settles
ResumePush(t) ==
  /\ Quiescent
  /\ task[t].pc = "await_push"
  /\ LET r == Settled(task[t])
         f == Top(r.stk)
         item == f.items[f.i]
         androidItemPath == f.androidDir \o Slash \o item.name
     IN \E ok \in BOOLEAN :
          LET reply == PushFileHandler(ok)
              p == r.processedFiles + 1
          IN /\ androidFiles' = IF ok THEN androidFiles \cup {androidItemPath}
                                ELSE androidFiles
             /\ status' = IF reply.rejected
                          THEN Msg("Error (p/N)", p, r.totalFiles)
                          ELSE Msg("Transferring p/N", p, r.totalFiles)
             /\ task' = [task EXCEPT ![t] =
                  [r EXCEPT !.pc = "pd_loop",
                            !.ops = Append(@, Op("push", androidItemPath, ok)),
                            !.processedFiles = p,
                            !.progress = Append(@, p),
                            !.fSuccess = IF reply.rejected THEN @ ELSE @ + 1,
                            !.fErrors = IF reply.rejected THEN @ + 1 ELSE @,
                            !.stk = Advance(r.stk)]]
  /\ UNCHANGED <<viewer, calc, navs, selectedDevice, localPath, androidPath, localSelectedItems,
                 androidSelectedItems, isTransferring, localDom, androidDom, loads,
                 srcTree, localDirs, localFiles, androidDirs, events>>

\* transferLocalFileToAndroid: the push-file settles; true unless invoke rejected
ResumePushFile(t) ==
  /\ Quiescent
  /\ task[t].pc = "await_pushfile"
  /\ \E ok \in BOOLEAN :
       LET r == Settled(task[t])
           reply == PushFileHandler(ok)
           r1 == [r EXCEPT !.ops = Append(@, Op("push", r.dst, ok))]
       IN /\ androidFiles' = IF ok THEN androidFiles \cup {r.dst} ELSE androidFiles
          /\ status' = IF reply.rejected THEN Msg("Error: message", 0, 0) ELSE status
          /\ task' = [task EXCEPT ![t] = FileReturn(r1, ~reply.rejected)]
  /\ UNCHANGED <<viewer, calc, navs, selectedDevice, localPath, androidPath, localSelectedItems,
                 androidSelectedItems, isTransferring, localDom, androidDom, loads,
                 srcTree, localDirs, localFiles, androidDirs, events>>

----------------------------------------------------------------------------
(* transferAndroidFileToLocal / transferAndroidFolderToLocal               *)

Max(S) == CHOOSE x \in S : \A y \in S : y <= x

\* path.dirname (posix): the path up to the last slash that is followed by a
\* name, trailing slashes skipped and the first character never dropped
PathDirname(p) ==
  CHOOSE dir \in
    {IF Len(path) = 0 THEN <<".">>
     ELSE LET hasRoot  == path[1] = "/"
              nonSlash == {j \in 2..Len(path) : path[j] # "/"}
              ends     == IF nonSlash = {} THEN {}
                          ELSE {j \in 2..Len(path) :
                                  path[j] = "/" /\ j < Max(nonSlash)}
          IN IF ends = {} THEN (IF hasRoot THEN Slash ELSE <<".">>)
             ELSE IF hasRoot /\ Max(ends) = 2 THEN <<"/", "/">>
             ELSE SubSeq(path, 1, Max(ends) - 1)
     : path \in {p}} : TRUE

\* a frame of listAndroidFilesRecursively(path): its `results`, and its for loop
LsFrame(path) ==
  [path |-> path, items |-> <<>>, i |-> 1, files |-> <<>>, directories |-> <<>>]

\* transferAndroidFolderToLocal, from its entry to the first
\* `await invoke('list-files')`: the base folder is created first
PullFolderEntry(t) ==
  /\ task[t].pc = "lf_entry"
  /\ LET r == task[t] IN
     IF LocalExists(r.dst)
     THEN /\ status' = Msg("Scanning Android folder structure...", 0, 0)
          /\ UNCHANGED localDirs
          /\ task' = [task EXCEPT ![t] =
               Issued([r EXCEPT !.pc = "await_list",
                                !.ops = Append(@, Op("exists", r.dst, TRUE)),
                                !.stk = <<LsFrame(r.src)>>],
                      "list-files")]
     ELSE \E ok \in BOOLEAN :
            LET r1 == [r EXCEPT !.ops = Append(@, Op("mkdirSync", r.dst, ok))] IN
            IF ok
            THEN /\ status' = Msg("Scanning Android folder structure...", 0, 0)
                 /\ localDirs' = localDirs \cup MkdirP(r.dst)
                 /\ task' = [task EXCEPT ![t] =
                      Issued([r1 EXCEPT !.pc = "await_list",
                                        !.stk = <<LsFrame(r.src)>>],
                             "list-files")]
            ELSE /\ status' = Msg("Error creating folder locally", 0, 0)
                 /\ UNCHANGED localDirs
                 /\ task' = [task EXCEPT ![t] = FolderReturn(r1, Resolved(0, 1))]
  /\ UNCHANGED <<viewer, calc, navs, selectedDevice, localPath, androidPath, localSelectedItems,
                 androidSelectedItems, isTransferring, localDom, androidDom, loads,
                 srcTree, localFiles, androidDirs, androidFiles, events>>

\* ResumeList that takes a rejected listing for an empty directory and goes on
ResumeListSkipsFailed(t) ==
  /\ Quiescent
  /\ task[t].pc = "await_list"
  /\ LET r == Settled(task[t])
         f == Top(r.stk)
     IN \E ok1, ok2 \in BOOLEAN :
          LET reply == ListFilesHandler(f.path, ok1, ok2)
              r1 == [r EXCEPT !.ops = Append(@, Op("list", f.path, ~reply.rejected))]
          IN /\ UNCHANGED status
             /\ \E q \in Perms(reply.files) :
                  task' = [task EXCEPT ![t] =
                    [r1 EXCEPT !.pc = "ls_loop",
                               !.stk = [r.stk EXCEPT ![Len(r.stk)].items = q]]]
  /\ UNCHANGED <<viewer, calc, navs, selectedDevice, localPath, androidPath, localSelectedItems,
                 androidSelectedItems, isTransferring, localDom, androidDom, loads,
                 srcTree, localDirs, localFiles, androidDirs, androidFiles, events>>

\* the list-files of the directory of the top frame settles.  A rejection is
\* re-thrown by every frame and caught by the outer catch of
\* transferAndroidFolderToLocal: {success: successCount, errors: errorCount + 1}
ResumeList(t) ==
  /\ Quiescent
  /\ task[t].pc = "await_list"
  /\ LET r == Settled(task[t])
         f == Top(r.stk)
     IN \E ok1, ok2 \in BOOLEAN :
          LET reply == ListFilesHandler(f.path, ok1, ok2)
              r1 == [r EXCEPT !.ops = Append(@, Op("list", f.path, ~reply.rejected))]
          IN IF reply.rejected
             THEN /\ status' = Msg("Error: message", 0, 0)
                  /\ task' = [task EXCEPT ![t] =
                       FolderReturn([r1 EXCEPT !.scan = "failed"],
                                    Resolved(r.fSuccess, r.fErrors + 1))]
             ELSE /\ UNCHANGED status
                  /\ \E q \in Perms(reply.files) :
                       task' = [task EXCEPT ![t] =
                         [r1 EXCEPT !.pc = "ls_loop",
                                    !.stk = [r.stk EXCEPT ![Len(r.stk)].items = q]]]
  /\ UNCHANGED <<viewer, calc, navs, selectedDevice, localPath, androidPath, localSelectedItems,
                 androidSelectedItems, isTransferring, localDom, androidDom, loads,
                 srcTree, localDirs, localFiles, androidDirs, androidFiles, events>>

\* MergeSubResults that puts the subdirectory's directories in front
MergeSubResultsChildrenFirst(results, subResults) ==
  [results EXCEPT !.i = @ + 1,
                  !.files = @ \o subResults.files,
                  !.directories = subResults.directories \o @]

\* results.files.push(...subResults.files);
\* results.directories.push(...subResults.directories); and the next item
MergeSubResults(results, subResults) ==
  [results EXCEPT !.i = @ + 1,
                  !.files = @ \o subResults.files,
                  !.directories = @ \o subResults.directories]

\* listAndroidFilesRecursively at the head of `for (const item of items)`
ListStep(t) ==
  /\ task[t].pc = "ls_loop"
  /\ LET r == task[t]
         f == Top(r.stk)
         n == Len(r.stk)
     IN IF f.i <= Len(f.items)
        THEN LET item == f.items[f.i]
                 isDir == IsDirMode(item.mode)
                 itemPath == IF EndsWithSlash(f.path) THEN f.path \o item.name
                             ELSE f.path \o Slash \o item.name
             IN IF isDir
                THEN /\ task' = [task EXCEPT ![t] =
                          Issued([r EXCEPT !.pc = "await_list",
                                           !.stk = Append(
                                              [r.stk EXCEPT ![n].directories =
                                                 Append(@, [path |-> itemPath,
                                                            name |-> item.name])],
                                              LsFrame(itemPath))],
                                 "list-files")]
                     /\ UNCHANGED status
                ELSE /\ task' = [task EXCEPT ![t] =
                          [r EXCEPT !.stk =
                             [r.stk EXCEPT ![n].i = @ + 1,
                                           ![n].files =
                                              Append(@, [path |-> itemPath,
                                                         name |-> item.name,
                                                         size |-> item.size])]]]
                     /\ UNCHANGED status
        ELSE IF n = 1
        THEN /\ status' = Msg("Preparing to transfer n files", Len(f.files), 0)
             /\ task' = [task EXCEPT ![t] =
                  [r EXCEPT !.pc = "lf_dirs", !.k = 1, !.scan = "ok", !.stk = <<>>,
                            !.fileList = [files |-> f.files,
                                          directories |-> f.directories],
                            !.totalFiles = Len(f.files)]]
        ELSE /\ task' = [task EXCEPT ![t] =
                  [r EXCEPT !.stk =
                     [Pop(r.stk) EXCEPT ![n-1] = MergeSubResults(@, f)]]]
             /\ UNCHANGED status
  /\ UNCHANGED <<viewer, calc, navs, selectedDevice, localPath, androidPath, localSelectedItems,
                 androidSelectedItems, isTransferring, localDom, androidDom, loads,
                 srcTree, localDirs, localFiles, androidDirs, androidFiles, events>>

\* the local path of a scanned entry: path.join(localFolderPath,
\* entry.path.substring(androidFolderPath.length))
TargetPath(r, entryPath) == PathJoin(r.dst, Substring(entryPath, Len(r.src)))

\* PullMkdirStep without the loop: the files are pulled with no directory made
PullMkdirStepSkipped(t) ==
  /\ task[t].pc = "lf_dirs"
  /\ task' = [task EXCEPT ![t] = [task[t] EXCEPT !.pc = "lf_files", !.k = 1]]
  /\ UNCHANGED <<viewer, calc, navs, selectedDevice, localPath, androidPath, localSelectedItems,
                 androidSelectedItems, isTransferring, status, localDom, androidDom,
                 loads, srcTree, localDirs, localFiles, androidDirs, androidFiles,
                 events>>

\* DirLoopDone that leaves the loop after the first directory
DirLoopDoneAfterFirst(r) == r.k > Len(r.fileList.directories) \/ r.k > 1

\* `for (const dir of fileList.directories)` is exhausted
DirLoopDone(r) == r.k > Len(r.fileList.directories)

\* "Create all directories first": one turn of the loop over fileList.directories.
\* A mkdirSync that throws leaves the loops for the outer catch.
PullMkdirStep(t) ==
  /\ task[t].pc = "lf_dirs"
  /\ LET r == task[t] IN
     IF DirLoopDone(r)
     THEN /\ task' = [task EXCEPT ![t] = [r EXCEPT !.pc = "lf_files", !.k = 1]]
          /\ UNCHANGED <<status, localDirs>>
     ELSE \E targetPath \in {TargetPath(r, r.fileList.directories[r.k].path)} :
          IF LocalExists(targetPath)
          THEN /\ task' = [task EXCEPT ![t] =
                    [r EXCEPT !.k = @ + 1,
                              !.ops = Append(@, Op("exists", targetPath, TRUE))]]
               /\ UNCHANGED <<status, localDirs>>
          ELSE \E ok \in BOOLEAN :
                 LET r1 == [r EXCEPT !.ops = Append(@, Op("mkdirSync", targetPath, ok))]
                 IN IF ok
                    THEN /\ localDirs' = localDirs \cup MkdirP(targetPath)
                         /\ task' = [task EXCEPT ![t] = [r1 EXCEPT !.k = @ + 1]]
                         /\ UNCHANGED status
                    ELSE /\ UNCHANGED localDirs
                         /\ status' = Msg("Error: message", 0, 0)
                         /\ task' = [task EXCEPT ![t] =
                              FolderReturn(r1, Resolved(r.fSuccess, r.fErrors + 1))]
  /\ UNCHANGED <<viewer, calc, navs, selectedDevice, localPath, androidPath, localSelectedItems,
                 androidSelectedItems, isTransferring, localDom, androidDom, loads,
                 srcTree, localFiles, androidDirs, androidFiles, events>>

\* PullFileStep that counts the created root folder as one transferred item
PullFileStepCountsRoot(t) ==
  /\ task[t].pc = "lf_files"
  /\ LET r == task[t] IN
     IF r.k <= Len(r.fileList.files)
     THEN task' = [task EXCEPT ![t] = Issued([r EXCEPT !.pc = "await_pull"],
                                             "pull-file")]
     ELSE task' = [task EXCEPT ![t] =
                     FolderReturn(r, Resolved(r.fSuccess + 1, r.fErrors))]
  /\ UNCHANGED <<viewer, calc, navs, selectedDevice, localPath, androidPath, localSelectedItems,
                 androidSelectedItems, isTransferring, status, localDom, androidDom,
                 loads, srcTree, localDirs, localFiles, androidDirs, androidFiles,
                 events>>

\* "Then transfer all files": the head of the loop over fileList.files
PullFileStep(t) ==
  /\ task[t].pc = "lf_files"
  /\ LET r == task[t] IN
     IF r.k <= Len(r.fileList.files)
     THEN task' = [task EXCEPT ![t] = Issued([r EXCEPT !.pc = "await_pull"],
                                             "pull-file")]
     ELSE task' = [task EXCEPT ![t] =
                     FolderReturn(r, Resolved(r.fSuccess, r.fErrors))]
  /\ UNCHANGED <<viewer, calc, navs, selectedDevice, localPath, androidPath, localSelectedItems,
                 androidSelectedItems, isTransferring, status, localDom, androidDom,
                 loads, srcTree, localDirs, localFiles, androidDirs, androidFiles,
                 events>>

\* what client.pull piped into createWriteStream(localPath) can do: the write
\* stream fails when the directory of localPath does not exist
PullOutcomes(localTarget) ==
  IF LocalIsDirectory(PathDirname(localTarget)) THEN BOOLEAN ELSE {FALSE}

\* the pull-file of a file of the folder settles
ResumePull(t) ==
  /\ Quiescent
  /\ task[t].pc = "await_pull"
  /\ LET r == Settled(task[t])
         file == r.fileList.files[r.k]
     IN \E targetPath \in {TargetPath(r, file.path)} :
        \E ok \in PullOutcomes(targetPath) :
          LET reply == PullFileHandler(ok)
              p == r.processedFiles + 1
          IN /\ localFiles' = IF ok THEN localFiles \cup {targetPath} ELSE localFiles
             /\ status' = IF reply.rejected
                          THEN Msg("Error (p/N)", p, r.totalFiles)
                          ELSE Msg("Transferring p/N", p, r.totalFiles)
             /\ task' = [task EXCEPT ![t] =
                  [r EXCEPT !.pc = "lf_files",
                            !.ops = Append(@, Op("pull", targetPath, ok)),
                            !.processedFiles = p,
                            !.progress = Append(@, p),
                            !.fSuccess = IF reply.rejected THEN @ ELSE @ + 1,
                            !.fErrors = IF reply.rejected THEN @ + 1 ELSE @,
                            !.k = @ + 1]]
  /\ UNCHANGED <<viewer, calc, navs, selectedDevice, localPath, androidPath, localSelectedItems,
                 androidSelectedItems, isTransferring, localDom, androidDom, loads,
                 srcTree, localDirs, androidDirs, androidFiles, events>>

\* transferAndroidFileToLocal: the pull-file settles; true unless invoke rejected
ResumePullFile(t) ==
  /\ Quiescent
  /\ task[t].pc = "await_pullfile"
  /\ \E ok \in PullOutcomes(task[t].dst) :
       LET r == Settled(task[t])
           reply == PullFileHandler(ok)
           r1 == [r EXCEPT !.ops = Append(@, Op("pull", r.dst, ok))]
       IN /\ localFiles' = IF ok THEN localFiles \cup {r.dst} ELSE localFiles
          /\ status' = IF reply.rejected THEN Msg("Error: message", 0, 0) ELSE status
          /\ task' = [task EXCEPT ![t] = FileReturn(r1, ~reply.rejected)]
  /\ UNCHANGED <<viewer, calc, navs, selectedDevice, localPath, androidPath, localSelectedItems,
                 androidSelectedItems, isTransferring, localDom, androidDom, loads,
                 srcTree, localDirs, androidDirs, androidFiles, events>>

\* what the device pull under ipcMain.handle('pull-file') can do: the write
\* stream finishes, client.pull rejects, the transfer stream emits 'error', the
\* write stream emits 'error'
DevicePullOutcomes == {"finish", "openFails", "transferError", "writeError"}

\* whether ipcMain.handle('pull-file') returns for an outcome: the promise it
\* awaits is resolved by 'finish' and rejected by 'error' of the stream that
\* pipe() returns, which is the write stream; client.pull rejecting is caught;
\* nothing listens to 'error' of the transfer stream
PullFileAnswers(outcome) == outcome \in {"finish", "openFails", "writeError"}

\* the transfer stream of a pull-file emits 'error' and never ends: the invoke
\* the transfer function awaits stays pending
PullTransferError(t) ==
  /\ Quiescent
  /\ task[t].pc \in {"await_pull", "await_pullfile"}
  /\ \E outcome \in DevicePullOutcomes :
       /\ ~PullFileAnswers(outcome)
       /\ task' = [task EXCEPT ![t].pc = "await_unanswered"]
  /\ UNCHANGED <<viewer, calc, navs, selectedDevice, localPath, androidPath, localSelectedItems,
                 androidSelectedItems, isTransferring, status, localDom, androidDom,
                 loads, srcTree, localDirs, localFiles, androidDirs, androidFiles,
                 events>>

----------------------------------------------------------------------------
(* Renderer: navigation (back buttons, double-click, refresh buttons)      *)

\* navigateUp that drops the last '/'-separated segment, without the root test
NavigateUpNoRootTest(currentPath) ==
  LET segs == Split(currentPath) IN JoinSlash(SubSeq(segs, 1, Len(segs) - 1))

\* localFileSystem.navigateUp (posix): path.dirname, or the path itself at the root
NavigateUp(currentPath) ==
  LET parent == PathDirname(currentPath) IN
  IF parent = currentPath THEN currentPath ELSE parent

\* AndroidBackPath that goes to '/' when no segment remains
AndroidBackPathToSlash(p) ==
  LET parts == SelectSeq(Split(p), LAMBDA x : x # <<>>) IN
  IF Len(parts) > 1
  THEN Slash \o JoinSlash(SubSeq(parts, 1, Len(parts) - 1))
  ELSE Slash

\* AndroidBackPath that stays at a top-level directory instead of going to
\* '/sdcard'
AndroidBackPathStaysAtTop(p) ==
  LET parts == SelectSeq(Split(p), LAMBDA x : x # <<>>) IN
  IF Len(parts) > 1
  THEN Slash \o JoinSlash(SubSeq(parts, 1, Len(parts) - 1))
  ELSE IF Len(parts) = 1 THEN Slash \o parts[1] ELSE Sdcard

\* the parent computed by the androidBackBtn handler:
\* split('/').filter(Boolean), pop(), '/' + join('/'), and '/sdcard' when empty
AndroidBackPath(p) ==
  LET parts == SelectSeq(Split(p), LAMBDA x : x # <<>>) IN
  IF Len(parts) > 0
  THEN LET popped == SubSeq(parts, 1, Len(parts) - 1) IN
       IF Len(popped) > 0 THEN Slash \o JoinSlash(popped) ELSE Sdcard
  ELSE Sdcard

\* the task records after both selection Sets were cleared
CursorsReset == [t \in Tasks |-> [task[t] EXCEPT !.pos = 0]]

\* localBackBtn click handler
LocalBack ==
  /\ Quiescent
  /\ navs < MaxNav
  /\ navs' = navs + 1
  /\ localPath' = NavigateUp(localPath)
  \* loadLocalFiles()
  /\ localDom' = {}
  /\ loads' = loads \cup {[side |-> "local", path |-> localPath', nav |-> FALSE]}
  \* clearSelections()
  /\ localSelectedItems' = ClearSelections.local
  /\ androidSelectedItems' = ClearSelections.android
  /\ task' = CursorsReset
  /\ UNCHANGED <<viewer, calc, selectedDevice, androidPath, isTransferring, status, androidDom,
                 srcTree, localDirs, localFiles, androidDirs, androidFiles, events>>

\* androidBackBtn click handler
AndroidBack ==
  /\ Quiescent
  /\ navs < MaxNav
  /\ navs' = navs + 1
  /\ androidPath' = AndroidBackPath(androidPath)
  \* loadAndroidFiles()
  /\ androidDom' = {}
  /\ IF selectedDevice = NoDevice
     THEN /\ status' = Msg("No device selected. Please select a device first.", 0, 0)
          /\ UNCHANGED loads
     ELSE /\ loads' = loads \cup
                        {[side |-> "android", path |-> androidPath', nav |-> FALSE]}
          /\ UNCHANGED status
  \* clearSelections()
  /\ localSelectedItems' = ClearSelections.local
  /\ androidSelectedItems' = ClearSelections.android
  /\ task' = CursorsReset
  /\ UNCHANGED <<viewer, calc, selectedDevice, localPath, isTransferring, localDom, srcTree,
                 localDirs, localFiles, androidDirs, androidFiles, events>>

\* handleItemDoubleClick on a folder item: both Sets are cleared, the pane's path
\* is extended, and the listing is awaited
ItemDoubleClick(isLocal, name) ==
  /\ Quiescent
  /\ navs < MaxNav
  /\ \E e \in DomOf(isLocal) : e.name = name /\ e.isDir
  /\ navs' = navs + 1
  /\ localSelectedItems' = <<>>
  /\ androidSelectedItems' = <<>>
  /\ task' = CursorsReset
  /\ IF isLocal
     THEN /\ localPath' = PathJoin(localPath, name)
          /\ localDom' = {}
          /\ loads' = loads \cup {[side |-> "local", path |-> localPath', nav |-> TRUE]}
          /\ UNCHANGED <<androidPath, androidDom>>
     ELSE /\ androidPath' = BackslashToSlash(PathJoin(androidPath, name))
          /\ androidDom' = {}
          /\ loads' = loads \cup
                        {[side |-> "android", path |-> androidPath', nav |-> TRUE]}
          /\ UNCHANGED <<localPath, localDom>>
  /\ UNCHANGED <<viewer, calc, selectedDevice, isTransferring, status, srcTree, localDirs,
                 localFiles, androidDirs, androidFiles, events>>

\* the paths typed into the Android path input
GoPaths ==
  {<<>>, Slash, Sdcard \o Slash, Sdcard \o <<"\\">>, AndroidRoot,
   Slash \o Sdcard \o <<"/", "/", "d", "/">>}

\* androidPathInput Enter / androidGoBtn click: the typed path becomes
\* state.androidPath as it is, and the pane is loaded
AndroidGo(newPath) ==
  /\ Quiescent
  /\ events < MaxEvents
  /\ events' = events + 1
  /\ IF selectedDevice = NoDevice
     THEN /\ status' = Msg("No device selected", 0, 0)
          /\ UNCHANGED <<androidPath, androidDom, loads>>
     ELSE /\ androidPath' = newPath
          /\ androidDom' = {}
          /\ loads' = loads \cup {[side |-> "android", path |-> newPath, nav |-> FALSE]}
          /\ UNCHANGED status
  /\ UNCHANGED <<viewer, calc, navs, selectedDevice, localPath, localSelectedItems,
                 androidSelectedItems, isTransferring, localDom, task, srcTree,
                 localDirs, localFiles, androidDirs, androidFiles>>

\* the paths typed into the local path input: a folder and a path that is none
LocalGoPaths == {LocalRoot, <<"/", "x">>}

\* localPathInput Enter / localGoBtn click: a typed path that is a directory
\* becomes state.localPath and the pane is loaded; the selection is kept
LocalGo(newPath) ==
  /\ Quiescent
  /\ navs < MaxNav
  /\ navs' = navs + 1
  /\ IF LocalExists(newPath) /\ LocalIsDirectory(newPath)
     THEN /\ localPath' = newPath
          /\ localDom' = {}
          /\ loads' = loads \cup {[side |-> "local", path |-> newPath, nav |-> FALSE]}
          /\ UNCHANGED status
     ELSE /\ status' = Msg("Invalid path", 0, 0)
          /\ UNCHANGED <<localPath, localDom, loads>>
  /\ UNCHANGED <<viewer, calc, selectedDevice, androidPath, localSelectedItems,
                 androidSelectedItems, isTransferring, androidDom, task, srcTree,
                 localDirs, localFiles, androidDirs, androidFiles, events>>

\* local-refresh / android-refresh click handlers: refreshLocalFiles and
\* refreshAndroidFiles call clearSelectedItems(), which no file defines, so the
\* ReferenceError is caught by the click handler and nothing else happens
RefreshClick ==
  /\ Quiescent
  /\ navs < MaxNav
  /\ navs' = navs + 1
  /\ UNCHANGED <<viewer, calc, selectedDevice, localPath, androidPath, localSelectedItems,
                 androidSelectedItems, isTransferring, status, localDom, androidDom,
                 loads, task, srcTree, localDirs, localFiles, androidDirs,
                 androidFiles, events>>

----------------------------------------------------------------------------
(* Path functions applied on their own *)

\* s.replace('\\', '/'): the first backslash only
ReplaceFirstBackslash(s) ==
  [i \in 1..Len(s) |->
     IF s[i] = "\\" /\ \A j \in 1..(i-1) : s[j] # "\\" THEN "/" ELSE s[i]]

\* normalizePlatformPath that replaces the first backslash only
NormalizePlatformPathFirstOnly(inputPath, isAndroidPath) ==
  ReplaceFirstBackslash(inputPath)

\* state.js normalizePlatformPath (process.platform is not 'win32')
NormalizePlatformPath(inputPath, isAndroidPath) ==
  IF isAndroidPath THEN BackslashToSlash(inputPath)
  ELSE BackslashToSlash(inputPath)

\* transferOperations.js adaptPathToOS (process.platform is not 'win32')
AdaptPathToOS(inputPath, isLocalPath) ==
  IF ~isLocalPath THEN BackslashToSlash(inputPath)
  ELSE BackslashToSlash(inputPath)

PathChars == {"/", "\\", "a", "."}

RECURSIVE StringsUpTo(_)
\* the strings over PathChars of length at most n
StringsUpTo(n) ==
  IF n = 0 THEN {<<>>}
  ELSE LET shorter == StringsUpTo(n - 1)
       IN shorter \cup {Append(x, c) : x \in shorter, c \in PathChars}

PathInputs == StringsUpTo(MaxLen)

\* paths given to list-files: below /sdcard, beside it, relative, with backslashes
ListPaths ==
  {Sdcard, Sdcard \o Slash, AndroidRoot, Sdcard \o <<"\\", "d">>,
   Sdcard \o <<"/", "a">>, Sdcard \o <<"a">>, Tail(Sdcard),
   <<"/", "d">>, <<"d">>, <<"\\", "d">>, <<"/", "/", "d">>}

\* the result of function fn for the argument that is the last result
Applied(fn, out) == [fn |-> fn, arg |-> calc.out, out |-> out, n |-> calc.n + 1]

\* a call normalizePlatformPath(p, true)
ApplyNormalizePlatformPath ==
  /\ calc.n < MaxApply
  /\ calc.fn \in {"input", "normalizePlatformPath"}
  /\ calc' = Applied("normalizePlatformPath", NormalizePlatformPath(calc.out, TRUE))
  /\ UNCHANGED <<viewer, navs, selectedDevice, localPath, androidPath, localSelectedItems,
                 androidSelectedItems, isTransferring, status, localDom, androidDom,
                 loads, task, srcTree, localDirs, localFiles, androidDirs,
                 androidFiles, events>>

\* a call adaptPathToOS(p, false)
ApplyAdaptPathToOS ==
  /\ calc.n < MaxApply
  /\ calc.fn \in {"input", "adaptPathToOS"}
  /\ calc' = Applied("adaptPathToOS", AdaptPathToOS(calc.out, FALSE))
  /\ UNCHANGED <<viewer, navs, selectedDevice, localPath, androidPath, localSelectedItems,
                 androidSelectedItems, isTransferring, status, localDom, androidDom,
                 loads, task, srcTree, localDirs, localFiles, androidDirs,
                 androidFiles, events>>

\* a call localFS.navigateUp(p)
ApplyNavigateUp ==
  /\ calc.n < MaxApply
  /\ calc.fn \in {"input", "navigateUp"}
  /\ calc' = Applied("navigateUp", NavigateUp(calc.out))
  /\ UNCHANGED <<viewer, navs, selectedDevice, localPath, androidPath, localSelectedItems,
                 androidSelectedItems, isTransferring, status, localDom, androidDom,
                 loads, task, srcTree, localDirs, localFiles, androidDirs,
                 androidFiles, events>>

\* a list-files request for the path, handled by the main process
ApplyListFiles ==
  /\ calc.n < MaxApply
  /\ calc.fn = "input"
  /\ \E ok1, ok2 \in BOOLEAN :
       calc' = [fn |-> "list-files",
                arg |-> [path |-> calc.out, ok1 |-> ok1, ok2 |-> ok2],
                out |-> ListFilesHandler(calc.out, ok1, ok2),
                n |-> calc.n + 1]
  /\ UNCHANGED <<viewer, navs, selectedDevice, localPath, androidPath, localSelectedItems,
                 androidSelectedItems, isTransferring, status, localDom, androidDom,
                 loads, task, srcTree, localDirs, localFiles, androidDirs,
                 androidFiles, events>>

\* paths of the Android pane that are deeper than those of PathInputs
BackPaths ==
  {RelPath(AndroidRoot, <<"s", "t">>), <<"/", "a", "/", "b", "/", "c">>}

\* the Android back button, clicked again on the path it has produced
ApplyAndroidBack ==
  /\ calc.n < MaxBack
  /\ calc.fn \in {"input", "androidBack"}
  /\ calc' = Applied("androidBack", AndroidBackPath(calc.out))
  /\ UNCHANGED <<viewer, navs, selectedDevice, localPath, androidPath, localSelectedItems,
                 androidSelectedItems, isTransferring, status, localDom, androidDom,
                 loads, task, srcTree, localDirs, localFiles, androidDirs,
                 androidFiles, events>>

----------------------------------------------------------------------------
(* Main process: the viewer window (main.js)                               *)

\* the viewer windows that exist and were not asked to close
OpenWindows == {w \in 1..MaxWindows : viewer.wins[w] = "open"}

\* win.close() on the window w.  The window is destroyed and its 'closed'
\* listener, `viewerWindow = null`, runs before close() returns (sync), or the
\* window is only asked to close and its 'closed' event comes later
CloseWindow(v, w, sync) ==
  IF sync
  THEN [ref |-> 0, wins |-> [v.wins EXCEPT ![w] = "closed"]]
  ELSE [v EXCEPT !.wins[w] = "closing"]

\* if (viewerWindow !== null && !viewerWindow.isDestroyed()) viewerWindow.close()
CloseIfNotDestroyed(v, sync) ==
  IF v.ref # 0 /\ v.wins[v.ref] \in {"open", "closing"}
  THEN CloseWindow(v, v.ref, sync)
  ELSE v

\* ipcMain.handle('view-file'): createViewerWindow(fileData) closes the window
\* viewerWindow refers to and assigns a new BrowserWindow to viewerWindow
ViewFile ==
  /\ \E w \in 1..MaxWindows, sync \in BOOLEAN :
       /\ viewer.wins[w] = "none"
       /\ \A u \in 1..(w - 1) : viewer.wins[u] # "none"
       /\ LET v == CloseIfNotDestroyed(viewer, sync) IN
          viewer' = [ref |-> w, wins |-> [v.wins EXCEPT ![w] = "open"]]
  /\ UNCHANGED <<calc, navs, selectedDevice, localPath, androidPath, localSelectedItems,
                 androidSelectedItems, isTransferring, status, localDom, androidDom,
                 loads, task, srcTree, localDirs, localFiles, androidDirs,
                 androidFiles, events>>

\* ipcMain.on('close-viewer')
CloseViewer ==
  /\ \E sync \in BOOLEAN : viewer' = CloseIfNotDestroyed(viewer, sync)
  /\ UNCHANGED <<calc, navs, selectedDevice, localPath, androidPath, localSelectedItems,
                 androidSelectedItems, isTransferring, status, localDom, androidDom,
                 loads, task, srcTree, localDirs, localFiles, androidDirs,
                 androidFiles, events>>

\* the 'closed' event of a window that was asked to close: viewerWindow = null
WindowClosed(w) ==
  /\ viewer.wins[w] = "closing"
  /\ viewer' = [ref |-> 0, wins |-> [viewer.wins EXCEPT ![w] = "closed"]]
  /\ UNCHANGED <<calc, navs, selectedDevice, localPath, androidPath, localSelectedItems,
                 androidSelectedItems, isTransferring, status, localDom, androidDom,
                 loads, task, srcTree, localDirs, localFiles, androidDirs,
                 androidFiles, events>>

\* the user closes the viewer window w with the close button of its frame
UserClosesWindow(w) ==
  /\ viewer.wins[w] = "open"
  /\ \E sync \in BOOLEAN : viewer' = CloseWindow(viewer, w, sync)
  /\ UNCHANGED <<calc, navs, selectedDevice, localPath, androidPath, localSelectedItems,
                 androidSelectedItems, isTransferring, status, localDom, androidDom,
                 loads, task, srcTree, localDirs, localFiles, androidDirs,
                 androidFiles, events>>

----------------------------------------------------------------------------
(* The program *)

\* the names an item of a pane can have
Names == {<<c>> : c \in {"h", "r", "f", "d", "g", "a", "b", "s", "t", "c"}}

Next ==
  \/ DeviceChange
  \/ LoadDone
  \/ \E isLocal \in BOOLEAN, name \in Names : ItemClick(isLocal, name)
  \/ \E isLocal \in BOOLEAN, name \in Names : ItemCtrlClick(isLocal, name)
  \/ \E t \in Tasks : ClickTransferToAndroid(t)
  \/ \E t \in Tasks : ClickTransferToLocal(t)
  \/ \E t \in Tasks : HandlerNextItem(t)
  \/ \E t \in Tasks : HandlerSummary(t)
  \/ \E t \in Tasks : HandlerFinally(t)
  \/ \E t \in Tasks : PushFolderEntry(t)
  \/ \E t \in Tasks : ResumeMkBase(t)
  \/ \E t \in Tasks : ProcessDirectoryStep(t)
  \/ \E t \in Tasks : ResumeMkSub(t)
  \/ \E t \in Tasks : ResumePush(t)
  \/ \E t \in Tasks : ResumePushFile(t)
  \/ \E t \in Tasks : PullFolderEntry(t)
  \/ \E t \in Tasks : ResumeList(t)
  \/ \E t \in Tasks : ListStep(t)
  \/ \E t \in Tasks : PullMkdirStep(t)
  \/ \E t \in Tasks : PullFileStep(t)
  \/ \E t \in Tasks : ResumePull(t)
  \/ \E t \in Tasks : ResumePullFile(t)

Spec == Init /\ [][Next]_vars

\* a step of the invocation t of a click handler after its guards: a run of
\* its code from one await, whose request has settled, to the next
HandlerStep(t) ==
  \/ HandlerNextItem(t) \/ HandlerSummary(t) \/ HandlerFinally(t)
  \/ PushFolderEntry(t) \/ ResumeMkBase(t) \/ ProcessDirectoryStep(t)
  \/ ResumeMkSub(t) \/ ResumePush(t) \/ ResumePushFile(t)
  \/ PullFolderEntry(t) \/ ResumeList(t) \/ ListStep(t) \/ PullMkdirStep(t)
  \/ PullFileStep(t) \/ ResumePull(t) \/ ResumePullFile(t)

\* The program when every bridge request settles and the event loop runs every
\* continuation that is ready
SpecLive == Spec /\ \A t \in Tasks : WF_vars(HandlerStep(t))

\* The same program with the navigation handlers, on one source tree
Navigate ==
  \/ \E isLocal \in BOOLEAN, name \in Names : ItemDoubleClick(isLocal, name)
  \/ LocalBack
  \/ AndroidBack
  \/ RefreshClick

InitNav == Init /\ srcTree = TreeFlat

NextNav == Next \/ Navigate

SpecNav == InitNav /\ [][NextNav]_vars

\* The same program with the two path inputs and the Android back button, on
\* one source tree
InitGo == Init /\ srcTree = TreeScen

NextGo ==
  \/ Next
  \/ \E newPath \in GoPaths : AndroidGo(newPath)
  \/ \E newPath \in LocalGoPaths : LocalGo(newPath)
  \/ AndroidBack

SpecGo == InitGo /\ [][NextGo]_vars

\* The same program when the transfer stream of a pull can fail
NextPull == Next \/ \E t \in Tasks : PullTransferError(t)

SpecPull == Init /\ [][NextPull]_vars

\* SpecPull when the event loop runs every continuation that is ready and
\* every request whose handler returns settles
SpecPullLive == SpecPull /\ \A t \in Tasks : WF_vars(HandlerStep(t))

\* The viewer window of the main process, on its own
NextViewer ==
  \/ ViewFile
  \/ CloseViewer
  \/ \E w \in 1..MaxWindows : WindowClosed(w)
  \/ \E w \in 1..MaxWindows : UserClosesWindow(w)

SpecViewer == InitNav /\ [][NextViewer]_vars

\* The path functions, each applied to every path of PathInputs and ListPaths
InitFn ==
  /\ selectedDevice = NoDevice
  /\ localPath = HomeDir
  /\ androidPath = Sdcard
  /\ localSelectedItems = <<>>
  /\ androidSelectedItems = <<>>
  /\ isTransferring = FALSE
  /\ status = Msg("Ready", 0, 0)
  /\ localDom = LocalTop
  /\ androidDom = {}
  /\ loads = {}
  /\ task = [t \in Tasks |-> IdleTask]
  /\ srcTree = TreeFlat
  /\ localDirs = {}
  /\ localFiles = {}
  /\ androidDirs = {}
  /\ androidFiles = {}
  /\ events = 0
  /\ navs = 0
  /\ viewer = NoViewer
  /\ \E p \in PathInputs \cup ListPaths \cup BackPaths :
       calc = [fn |-> "input", arg |-> p, out |-> p, n |-> 0]

NextFn ==
  \/ ApplyNormalizePlatformPath
  \/ ApplyAdaptPathToOS
  \/ ApplyNavigateUp
  \/ ApplyListFiles
  \/ ApplyAndroidBack

SpecFn == InitFn /\ [][NextFn]_vars

\* The Android back button alone, clicked from every path of InitFn as long as
\* it can be
SpecBack == InitFn /\ [][ApplyAndroidBack]_vars /\ WF_vars(ApplyAndroidBack)

----------------------------------------------------------------------------
(* Vocabulary of the properties *)

FolderCalls == {"pushFolder", "pullFolder"}
FileCalls == {"pushFile", "pullFile"}
CreationOps == {"mkdir", "mkdirSync", "exists"}

\* the transfer function called by task record r has returned
Returned(r) == r.ret.kind # "none"

\* the number of files of the source folder (the same tree on both sides)
TreeFiles == Cardinality({f \in SrcLocalFiles : StartsWith(f, LocalRoot \o Slash)})

OpsOf(r, kinds) == {i \in 1..Len(r.ops) : r.ops[i].op \in kinds}
FailedOps(r) == {i \in 1..Len(r.ops) : ~r.ops[i].ok}

\* the destination directories a file at path p depends on, from root downwards
AncestorsWithin(p, root) == {d \in MkdirP(PathDirname(p)) : StartsWith(d, root)}

\* the creation of directory d was carried out before the j-th request
CreatedBefore(r, j, d) ==
  \E i \in 1..(j-1) : r.ops[i].op \in CreationOps /\ r.ops[i].path = d

\* the destination of the push or pull that is outstanding
PendingCopyTarget(r) ==
  IF r.pc = "await_push"
  THEN Top(r.stk).androidDir \o Slash \o Top(r.stk).items[Top(r.stk).i].name
  ELSE TargetPath(r, r.fileList.files[r.k].path)

----------------------------------------------------------------------------
(* Properties *)

\* C1 (as claimed): a folder transfer in which the bridge fails exactly one copy
\* and everything else succeeds returns {success: N-1, errors: 1}, and all N
\* files were attempted.
C1_ContinueOnError ==
  \A t \in Tasks :
    LET r == task[t] IN
    (/\ r.call \in FolderCalls /\ Returned(r) /\ r.scan = "ok"
     /\ Cardinality(FailedOps(r)) = 1
     /\ FailedOps(r) \subseteq OpsOf(r, {"push", "pull"}))
    => /\ r.ret = Resolved(TreeFiles - 1, 1)
       /\ Cardinality(OpsOf(r, {"push", "pull"})) = TreeFiles

\* C2 (as claimed): pushing root/{a.txt, sub/b.txt} with every mkdir and every
\* push succeeding returns exactly {success: 2, errors: 0}, in any listing order.
C2_ScenarioResult ==
  \A t \in Tasks :
    LET r == task[t] IN
    (/\ r.call = "pushFolder" /\ Returned(r) /\ r.scan = "ok"
     /\ srcTree = TreeScen /\ FailedOps(r) = {})
    => r.ret = Resolved(2, 0)

\* C3: whenever a push or pull of a folder transfer is started, the creation of
\* the destination root and of every destination directory above the file has
\* already been carried out (and has settled).
C3_ParentBeforeChild ==
  \A t \in Tasks :
    LET r == task[t] IN
    r.call \in FolderCalls =>
      /\ \A j \in OpsOf(r, {"push", "pull"}) :
           \A d \in AncestorsWithin(r.ops[j].path, r.dst) : CreatedBefore(r, j, d)
      /\ r.pc \in {"await_push", "await_pull"} =>
           \A d \in AncestorsWithin(PendingCopyTarget(r), r.dst) :
             CreatedBefore(r, Len(r.ops) + 1, d)

\* C3 witness: a copy three directories deep is outstanding
C3_Witness ==
  \E t \in Tasks :
    /\ task[t].pc \in {"await_push", "await_pull"}
    /\ Cardinality(AncestorsWithin(PendingCopyTarget(task[t]), task[t].dst)) >= 3

\* C4 (as claimed): when the source scan of a folder transfer fails, nothing was
\* created on the destination (not even the root) and nothing was copied.
C4_FailedScanNoSideEffect ==
  \A t \in Tasks :
    LET r == task[t] IN
    (r.call \in FolderCalls /\ Returned(r) /\ r.scan = "failed")
    => OpsOf(r, {"mkdir", "mkdirSync", "push", "pull"}) = {}

\* at most one handler is between `state.isTransferring = true` and its finally
AtMostOneHandler == Cardinality({t \in Tasks : task[t].pc # "idle"}) <= 1

\* a click on a transfer button during a transfer starts nothing
ClickDuringTransferStartsNothing ==
  (isTransferring /\ \E t \in Tasks, b \in BOOLEAN : ClickTransfer(t, b))
  => UNCHANGED <<task, loads, isTransferring, localDirs, localFiles, androidDirs,
                 androidFiles, localSelectedItems, androidSelectedItems>>

\* C5: under every interleaving of clicks at most one transfer handler is in
\* flight, and a click that arrives during a transfer starts no request and no
\* handler and is not kept for later.
C5_MutualExclusion == [](AtMostOneHandler) /\ [][ClickDuringTransferStartsNothing]_vars

\* C5 witness: a transfer is suspended at a request and a click was just rejected
C5_Witness ==
  /\ isTransferring
  /\ status.msg = "Transfer already in progress"
  /\ \E t \in Tasks : task[t].pc \in AwaitPcs

\* C6 (as claimed): the processed values reported by a folder transfer whose
\* scan counted N files are exactly 1, 2, ..., N.
C6_ProgressExact ==
  \A t \in Tasks :
    LET r == task[t] IN
    (r.call \in FolderCalls /\ Returned(r) /\ r.scan = "ok")
    => r.progress = [i \in 1..r.totalFiles |-> i]

\* C7 (as claimed): once the scan has succeeded a folder transfer never rejects,
\* and it resolves only after every entry was processed.
C7_NeverRejects ==
  \A t \in Tasks :
    LET r == task[t] IN
    (r.call \in FolderCalls /\ Returned(r) /\ r.scan = "ok")
    => /\ r.ret.kind = "resolved"
       /\ Cardinality(OpsOf(r, {"push", "pull"})) = r.totalFiles

\* C8 (as claimed): a single-file transfer returns true exactly when the bridge
\* copied the file.
C8_FileContract ==
  \A t \in Tasks :
    LET r == task[t] IN
    (r.call \in FileCalls /\ Returned(r))
    => /\ r.ret.kind \in {"true", "false"}
       /\ (r.ret.kind = "true") <=> r.ops[1].ok

\* C9 (as claimed): a failed creation of a destination subdirectory is counted
\* in errors and every file is still attempted.
C9_DirFailureNonFatal ==
  \A t \in Tasks :
    LET r == task[t]
        failedSub == {i \in OpsOf(r, {"mkdir", "mkdirSync"}) :
                        ~r.ops[i].ok /\ r.ops[i].path # r.dst}
    IN (/\ r.call \in FolderCalls /\ Returned(r) /\ r.scan = "ok"
        /\ failedSub # {} /\ FailedOps(r) = failedSub)
       => /\ r.ret.kind = "resolved"
          /\ r.ret.errors >= Cardinality(failedSub)
          /\ Cardinality(OpsOf(r, {"push", "pull"})) = r.totalFiles

NoSelection == localSelectedItems = <<>> /\ androidSelectedItems = <<>>

\* C10 (as claimed): both selection sets are cleared when a transfer starts and
\* when it ends.
C10_ClearedAtStartAndEnd ==
  [][/\ (~isTransferring /\ isTransferring') => NoSelection'
     /\ (isTransferring /\ ~isTransferring') => NoSelection']_vars

\* C10 (amended): both selection sets are cleared when a transfer ends, so no
\* selection made before or during the transfer outlives the handler.
C10_ClearedAtEnd == [][(isTransferring /\ ~isTransferring') => NoSelection']_vars

\* C10 witness: a handler has just run its finally block
C10_Witness ==
  /\ status.msg = "Transfer completed and views refreshed"
  /\ ~isTransferring
  /\ NoSelection
  /\ events >= 3

\* C11 (as claimed): the status a transfer handler leaves behind when it finishes
\* is the summary 'Transfer complete. Success: N, Errors: M' with its two counts.
C11_FinalSummary ==
  [][\A t \in Tasks :
       (HandlerFinally(t) /\ ~isTransferring')
       => status' = Msg("Transfer complete. Success: a, Errors: b",
                        task[t].successCount, task[t].errorCount)]_vars

\* the elements of a sequence
Range(seq) == {seq[i] : i \in 1..Len(seq)}

\* C12 (as claimed): when a handler has left its loop (and is about to set
\* isTransferring back to false), every item that was selected when it started
\* has been attempted, whatever the user did at its await points.
C12_NoCancellation ==
  \A t \in Tasks :
    task[t].pc = "h_refresh" => Range(task[t].startSel) \subseteq task[t].attempted

\* C13: a folder transfer of an empty source directory issues no push and no
\* pull and creates nothing but the destination root; when the scan and the root
\* creation succeed it reports a total of 0 files and returns {0, 0}.
C13_EmptySource ==
  \A t \in Tasks :
    LET r == task[t] IN
    (r.call \in FolderCalls /\ Returned(r) /\ srcTree = TreeEmpty)
    => /\ OpsOf(r, {"push", "pull"}) = {}
       /\ \A i \in OpsOf(r, CreationOps) : r.ops[i].path = r.dst
       /\ (FailedOps(r) = {} /\ r.scan = "ok")
          => /\ r.totalFiles = 0
             /\ r.ret = Resolved(0, 0)
             /\ OpsOf(r, CreationOps) # {}

\* C13 witness: the pull of an empty folder has returned after a clean run
C13_Witness ==
  \E t \in Tasks :
    /\ task[t].call = "pullFolder" /\ Returned(task[t]) /\ srcTree = TreeEmpty
    /\ task[t].scan = "ok" /\ FailedOps(task[t]) = {}
    /\ \E i \in OpsOf(task[t], {"mkdirSync"}) : task[t].ops[i].path = task[t].dst

\* C14 (as claimed): a folder transfer that runs again with the same arguments,
\* after a run in which every request succeeded, does not return from its
\* root-creation step, leaves no directory at or below the destination root
\* that is not the image of a source directory (no second and no nested root),
\* and returns what the first run returned when its scan and all its requests
\* succeed.
C14_IdempotentRoot ==
  \A t \in Tasks :
    LET r == task[t]
        p == r.prev
    IN (/\ r.call \in FolderCalls /\ Returned(r)
        /\ p.same /\ p.ret.kind = "resolved" /\ p.clean)
       => /\ ~(Len(r.ops) = 1 /\ r.ops[1].op \in {"mkdir", "mkdirSync"})
          /\ \A d \in localDirs \cup androidDirs :
               StartsWith(d, r.dst)
               => d \in {RelPath(r.dst, x) : x \in DOMAIN srcTree}
          /\ (FailedOps(r) = {} /\ r.scan = "ok") => r.ret = p.ret

\* a listing of the scan of task record r failed
ScanListingFailed(r) ==
  r.scan = "failed" \/ \E i \in OpsOf(r, {"list"}) : ~r.ops[i].ok

\* C15: when a directory listing of the scan fails, at any depth, none of the
\* directories the scan had found is created on the destination, no file is
\* pushed or pulled, and the transfer returns success = 0 with errors >= 1.
C15_ListingFailureFatal ==
  \A t \in Tasks :
    LET r == task[t] IN
    (r.call \in FolderCalls /\ Returned(r) /\ ScanListingFailed(r))
    => /\ \A i \in OpsOf(r, CreationOps) : r.ops[i].path = r.dst
       /\ OpsOf(r, {"push", "pull"}) = {}
       /\ r.ret.kind = "resolved" /\ r.ret.success = 0 /\ r.ret.errors >= 1

\* C15 witness: a pull returned after the listing of a subdirectory failed, with
\* another subdirectory already found
C15_Witness ==
  \E t \in Tasks :
    LET r == task[t] IN
    /\ r.call = "pullFolder" /\ Returned(r) /\ r.scan = "failed"
    /\ Cardinality(OpsOf(r, {"list"})) >= 3
    /\ ~r.ops[Len(r.ops)].ok

\* the directory a scanned entry {path, name} lies in
ParentOfEntry(e) == SubSeq(e.path, 1, Len(e.path) - Len(e.name) - 1)

\* C16: in the result of listAndroidFilesRecursively every directory comes after
\* its parent directory, and every ancestor of a file that lies strictly below the
\* scan root is one of the directories, in whatever order the listings return
\* their entries.
C16_PlanInvariant ==
  \A t \in Tasks :
    LET r == task[t]
        ds == r.fileList.directories
        fs == r.fileList.files
    IN (r.call = "pullFolder" /\ r.scan = "ok")
       => /\ \A i \in 1..Len(ds) :
               \/ ParentOfEntry(ds[i]) = r.src
               \/ \E j \in 1..(i-1) : ds[j].path = ParentOfEntry(ds[i])
          /\ \A i \in 1..Len(fs) :
               \A d \in MkdirP(ParentOfEntry(fs[i])) :
                 (StartsWith(d, r.src) /\ d # r.src)
                 => \E j \in 1..Len(ds) : ds[j].path = d

\* C16 witness: a scan has returned a directory inside a directory and a file in it
C16_Witness ==
  \E t \in Tasks :
    LET r == task[t]
        ds == r.fileList.directories
        fs == r.fileList.files
    IN /\ r.call = "pullFolder" /\ r.scan = "ok"
       /\ \E i, j \in 1..Len(ds) : ds[j].path = ParentOfEntry(ds[i])
       /\ \E i \in 1..Len(fs), j \in 1..Len(ds) :
            /\ ParentOfEntry(fs[i]) = ds[j].path
            /\ ParentOfEntry(ds[j]) # r.src

C18_Sequential ==
  \A t \in Tasks :
    /\ Len(task[t].pending) <= 1
    /\ task[t].pc \in AwaitPcs <=> Len(task[t].pending) = 1

\* C18 witness: the second copy request of a folder transfer is outstanding
C18_Witness ==
  \E t \in Tasks :
    /\ task[t].pending \in {<<"push-file">>, <<"pull-file">>}
    /\ task[t].call \in FolderCalls
    /\ OpsOf(task[t], {"push", "pull"}) # {}

\* a step of the transfer engine: one of the two click handlers, or one of the
\* four transfer functions they call, runs from one await to the next
TransferStep ==
  \E t \in Tasks :
    \/ ClickTransferToAndroid(t) \/ ClickTransferToLocal(t)
    \/ HandlerNextItem(t) \/ HandlerSummary(t) \/ HandlerFinally(t)
    \/ PushFolderEntry(t) \/ ResumeMkBase(t) \/ ProcessDirectoryStep(t)
    \/ ResumeMkSub(t) \/ ResumePush(t) \/ ResumePushFile(t)
    \/ PullFolderEntry(t) \/ ResumeList(t) \/ ListStep(t) \/ PullMkdirStep(t)
    \/ PullFileStep(t) \/ ResumePull(t) \/ ResumePullFile(t)

DeviceAndPaths == <<selectedDevice, localPath, androidPath>>

\* C19: no step of the transfer engine changes state.selectedDevice,
\* state.localPath or state.androidPath; a step that changes one of them is a
\* step of a navigation handler or of the device selection.
C19_Frame ==
  [][/\ TransferStep => UNCHANGED DeviceAndPaths
     /\ DeviceAndPaths' # DeviceAndPaths => (Navigate \/ DeviceChange)]_vars

\* C19 witness: a transfer is suspended and the pane it reads from has been
\* navigated away from the folder of the item it is transferring
C19_Witness ==
  \E t \in Tasks :
    /\ task[t].pc \in AwaitPcs
    /\ task[t].fn = "toAndroid"
    /\ PathJoin(localPath, task[t].itemName) # task[t].src

\* C20 (as claimed): every click on a transfer button while isTransferring is
\* true leaves the status 'Transfer already in progress'.
C20_RejectionStatus ==
  [][(isTransferring /\ \E t \in Tasks, b \in BOOLEAN : ClickTransfer(t, b))
     => status' = Msg("Transfer already in progress", 0, 0)]_vars

\* C20 (amended): every click on a transfer button while isTransferring is true
\* is rejected at once; the status it leaves is that of the first guard that
\* fails, in the order device, selection of the button's side, transfer in
\* progress.
C20_RejectionByGuardOrder ==
  [][\A b \in BOOLEAN :
       (isTransferring /\ \E t \in Tasks : ClickTransfer(t, b))
       => /\ UNCHANGED <<task, isTransferring, loads>>
          /\ status' =
               Msg(IF selectedDevice = NoDevice THEN "No device selected"
                   ELSE IF Len(SelOf(b)) = 0 THEN "No items selected for transfer"
                   ELSE "Transfer already in progress", 0, 0)]_vars

\* C20 witness: during a transfer a click on the other button, whose side has no
\* selection, was rejected
C20_Witness ==
  /\ isTransferring
  /\ status.msg = "No items selected for transfer"
  /\ \E t \in Tasks : task[t].pc \in AwaitPcs

\* C21 (as claimed): when the source scan of a folder transfer fails, in either
\* direction, the function returns with the status 'Error counting files:
\* <message>' and has copied nothing.
C21_FailedScanStatus ==
  \A t \in Tasks :
    LET r == task[t] IN
    (r.call \in FolderCalls /\ r.pc = "h_loop" /\ Returned(r) /\ r.scan = "failed")
    => /\ status = Msg("Error counting files", 0, 0)
       /\ OpsOf(r, {"push", "pull"}) = {}

\* s contains no backslash
NoBackslash(s) == \A i \in 1..Len(s) : s[i] # "\\"

\* C22: normalizePlatformPath(p, true) and adaptPathToOS(p, false) return p with
\* every backslash replaced by a forward slash and every other character kept,
\* so the result has no backslash; a path without backslashes is returned
\* unchanged, and so is the result of a first application.
C22_DeviceNormalization ==
  calc.fn \in {"normalizePlatformPath", "adaptPathToOS"}
  => /\ Len(calc.out) = Len(calc.arg)
     /\ \A i \in 1..Len(calc.arg) :
          calc.out[i] = (IF calc.arg[i] = "\\" THEN "/" ELSE calc.arg[i])
     /\ NoBackslash(calc.out)
     /\ NoBackslash(calc.arg) => calc.out = calc.arg
     /\ calc.n = 2 => calc.out = calc.arg

\* C22 witness: a path with two backslashes and a slash was normalized
C22_Witness ==
  /\ calc.fn = "adaptPathToOS" /\ calc.n = 1
  /\ Cardinality({i \in 1..Len(calc.arg) : calc.arg[i] = "\\"}) >= 2
  /\ \E i \in 1..Len(calc.arg) : calc.arg[i] = "/"

RECURSIVE SegmentsFrom(_, _)
\* the non-empty '/'-separated segments of s, after the characters in cur
SegmentsFrom(s, cur) ==
  LET done == IF cur = <<>> THEN <<>> ELSE <<cur>> IN
  IF Len(s) = 0 THEN done
  ELSE IF s[1] = "/" THEN done \o SegmentsFrom(Tail(s), <<>>)
  ELSE SegmentsFrom(Tail(s), Append(cur, s[1]))

\* C23: the Android back action sets state.androidPath to '/' followed by the
\* non-empty segments of the old path without the last one, joined by '/', and to
\* '/sdcard' when no segment remains; the new path starts with '/' and is not empty.
C23_DeviceParentOf ==
  [][AndroidBack =>
       LET segs == SegmentsFrom(androidPath, <<>>) IN
       /\ Len(androidPath') > 0 /\ androidPath'[1] = "/"
       /\ IF Len(segs) >= 2
          THEN /\ SegmentsFrom(androidPath', <<>>) = SubSeq(segs, 1, Len(segs) - 1)
               /\ androidPath' = Slash \o JoinSlash(SubSeq(segs, 1, Len(segs) - 1))
          ELSE androidPath' = Sdcard]_vars

\* C23 witness: the back button was clicked on '//sdcard//d/' and the pane is at
\* '/sdcard'
C23_Witness ==
  /\ navs = 1
  /\ androidPath = Sdcard
  /\ \E l \in loads : l.path = Slash \o Sdcard \o <<"/", "/", "d", "/">>

\* C24: navigateUp(p) returns path.dirname(p), and p itself when dirname(p) is
\* p; it returns a path for every input; the result is p, '.', or a shorter prefix
\* of p; and the root '/' is a fixed point, so a second navigateUp stays there.
C24_HostParentOf ==
  calc.fn = "navigateUp"
  => /\ calc.out = (IF PathDirname(calc.arg) = calc.arg THEN calc.arg
                    ELSE PathDirname(calc.arg))
     /\ Len(calc.out) >= 1
     /\ \/ calc.out = calc.arg
        \/ calc.out = <<".">>
        \/ Len(calc.out) < Len(calc.arg) /\ StartsWith(calc.arg, calc.out)
     /\ calc.arg = Slash => calc.out = Slash
     /\ (calc.out = calc.arg) <=> (calc.arg \in {Slash, <<".">>})

\* C24 witness: navigateUp was applied to the root it had just returned
C24_Witness ==
  calc.fn = "navigateUp" /\ calc.n = 2 /\ calc.arg = Slash /\ calc.out = Slash

\* bit 0x4000 of mode is set
HasDirBit(mode) == mode % (2 * DirBit) >= DirBit

\* the path listAndroidFilesRecursively gives the entry `name` of directory `path`
ScannedPath(path, name) ==
  IF EndsWithSlash(path) THEN path \o name ELSE path \o Slash \o name

NoDoubleSlash(s) == \A i \in 1..(Len(s) - 1) : ~(s[i] = "/" /\ s[i+1] = "/")

\* the device-side paths a transfer has composed: the path of the selected item,
\* the paths of its create-directory, push-file and list-files requests, and the
\* paths of the scanned entries
DevicePathsOf(r) ==
  {IF r.call \in {"pushFolder", "pushFile"} THEN r.dst ELSE r.src}
  \cup {r.ops[i].path : i \in OpsOf(r, {"mkdir", "push", "list"})}
  \cup (IF r.call = "pullFolder"
        THEN UNION {{r.stk[n].files[k].path : k \in 1..Len(r.stk[n].files)}
                    \cup {r.stk[n].directories[k].path :
                            k \in 1..Len(r.stk[n].directories)} :
                    n \in 1..Len(r.stk)}
             \cup {r.fileList.files[k].path : k \in 1..Len(r.fileList.files)}
        ELSE {})

\* C26 (as claimed): no device-side path composed for a transfer has two
\* consecutive '/', whatever state.androidPath is.
C26_NoDuplicateSeparator ==
  \A t \in Tasks :
    task[t].call # "none" => \A p \in DevicePathsOf(task[t]) : NoDoubleSlash(p)

\* C27: the list-files handler reads the normalized path first; when that
\* readdir succeeds it is the only one; when it fails the handler makes exactly
\* one more readdir, of '/sdcard/' + the path without its leading slashes, and
\* only if the path is not '/sdcard' and does not start with '/sdcard/'; when
\* no readdir succeeds the error that reaches the renderer is the first one.
C27_ListFilesFallback ==
  calc.fn = "list-files"
  => LET o  == calc.out
         b  == [i \in 1..Len(calc.arg.path) |->
                  IF calc.arg.path[i] = "\\" THEN "/" ELSE calc.arg.path[i]]
         np == IF Len(b) > 0 /\ b[1] = "/" THEN b ELSE Slash \o b
         fb == Sdcard \o Slash \o StripLeadingSlashes(np)
         firstOk == calc.arg.ok1 /\ AndroidIsDirectory(np)
         secondOk == calc.arg.ok2 /\ AndroidIsDirectory(fb)
         allowed == np # Sdcard /\ ~StartsWith(np, Sdcard \o Slash)
     IN /\ firstOk => /\ o.readdirs = <<np>>
                      /\ ~o.rejected /\ o.files = AndroidEntries(np)
        /\ (~firstOk /\ allowed)
           => /\ o.readdirs = <<np, fb>>
              /\ o.rejected <=> ~secondOk
              /\ secondOk => o.files = AndroidEntries(fb)
        /\ (~firstOk /\ ~allowed) => (o.readdirs = <<np>> /\ o.rejected)
        /\ o.error = (IF o.rejected THEN "innerErr" ELSE "none")

\* C27 witness: '/d' could not be read, the retry of '/sdcard/d' failed too, and
\* the handler has thrown
C27_Witness ==
  /\ calc.fn = "list-files"
  /\ calc.out.readdirs = <<<<"/", "d">>, AndroidRoot>>
  /\ calc.out.rejected

\* the item a handler was working on has just ended in a failure: it was missing
\* or could not be stat-ed, or its transfer function threw or returned false
ItemFailed(t) ==
  \/ task'[t].pc # "idle" /\ task'[t].skipped # task[t].skipped
  \/ /\ task[t].pc \in AwaitPcs /\ task[t].ret.kind = "none"
     /\ task'[t].ret.kind \in {"rejected", "false"}

\* C28: an item that is missing, cannot be stat-ed or whose transfer throws (or
\* returns false) adds exactly one to the handler's error count and nothing to
\* its success count, and the handler stays in its loop at the same place; it
\* leaves the loop only when every item of the selection has been visited.
C28_ContinueAcrossItems ==
  /\ [][\A t \in Tasks :
          ItemFailed(t)
          => /\ task'[t].errorCount = task[t].errorCount + 1
             /\ task'[t].successCount = task[t].successCount
             /\ task'[t].pc = "h_loop"
             /\ task'[t].pos = IF task[t].pc = "h_loop" THEN task[t].pos + 1
                               ELSE task[t].pos]_vars
  /\ [](\A t \in Tasks :
          task[t].pc = "h_refresh"
          => Range(SelOf(task[t].fn = "toAndroid")) \subseteq task[t].attempted)

\* C28 witness: of two selected items the first was missing and the second, a
\* file, was pushed
C28_Witness ==
  \E t \in Tasks :
    LET r == task[t] IN
    /\ r.pc = "h_refresh" /\ r.total = 2 /\ Len(r.startSel) = 2
    /\ r.skipped = {r.startSel[1]}
    /\ ~LocalExists(PathJoin(localPath, r.startSel[1]))
    /\ r.call = "pushFile" /\ r.ret.kind = "true" /\ r.itemName = r.startSel[2]
    /\ r.errorCount = 1 /\ r.successCount = 1

\* the directories of the source folder below its root
TreeDirs == Cardinality(DOMAIN srcTree) - 1

\* C29 (as claimed): the {success, errors} a folder transfer returns has success
\* equal to the number of files whose push or pull succeeded, so at most the
\* number of files counted, and success + errors at most the number of files
\* plus the number of directories of the source tree.
C29_ExactCounts ==
  \A t \in Tasks :
    LET r == task[t] IN
    (r.call \in FolderCalls /\ r.ret.kind = "resolved")
    => /\ r.ret.success =
            Cardinality({i \in OpsOf(r, {"push", "pull"}) : r.ops[i].ok})
       /\ r.scan = "ok" => r.ret.success <= r.totalFiles
       /\ r.ret.success + r.ret.errors <= TreeFiles + TreeDirs + 1

\* C30: whenever state.isTransferring is true, it is false again later with both
\* selection Sets empty, provided every request of the transfer settles.
C30_GuardReleased == isTransferring ~> (~isTransferring /\ NoSelection)

\* C30 witness: a handler in which a transfer function threw has gone through
\* its finally block
C30_Witness ==
  /\ ~isTransferring /\ NoSelection
  /\ \A t \in Tasks : task[t].pc = "idle"
  /\ status.msg = "Transfer completed and views refreshed"
  /\ androidDirs # {} /\ androidFiles = {}

\* an invoke('pull-file') of the invocation t has not settled
PullPending(t) ==
  \E i \in 1..Len(task[t].pending) : task[t].pending[i] = "pull-file"

\* C31: every pull-file request is answered: an invocation that awaits one is
\* later past that await, for every outcome of the device pull.
C31_PullFileAnswers == \A t \in Tasks : PullPending(t) ~> ~PullPending(t)

\* the invocation t is inside a call of a transfer function
InCall(t) == task[t].pc \notin {"idle", "h_loop", "h_refresh"}

\* C32: the source and the target of every item of a transfer are composed from
\* the directories state.localPath and state.androidPath named when the
\* transfer began, whatever navigation happens at its awaits.
C32_StartTimeDirectories ==
  \A t \in Tasks :
    LET r == task[t] IN
    InCall(t) =>
      IF r.fn = "toAndroid"
      THEN /\ r.src = PathJoin(r.startLocalPath, r.itemName)
           /\ r.dst = CollapseSlashes(r.startAndroidPath \o Slash
                                        \o SanitizeForAndroid(r.itemName))
      ELSE /\ r.src = BackslashToSlash(PathJoin(r.startAndroidPath, r.itemName))
           /\ r.dst = PathJoin(r.startLocalPath, SanitizeForLocal(r.itemName))

\* C33: a running transfer visits only items of the selection it started with,
\* its counter `current` never exceeds `total`, and every percentage passed to
\* updateProgressBar is between 0 and 100.
C33_StartSelectionOnly ==
  \A t \in Tasks :
    LET r == task[t] IN
    r.pc # "idle" =>
      /\ r.attempted \subseteq Range(r.startSel)
      /\ r.current <= r.total
      /\ r.percent \in 0..100

\* the directories of the device below the directory p, p included
RemoteDirsBelow(p) == {d \in SrcAndroidDirs : StartsWith(d, p)}

\* the paths of the requests of the given kind, and whether any path repeats
OpPaths(r, kind) == {r.ops[i].path : i \in OpsOf(r, {kind})}
NoRepeatedOp(r, kind) ==
  \A i, j \in OpsOf(r, {kind}) : i # j => r.ops[i].path # r.ops[j].path

\* no directory is listed twice by one scan, and a scan in which every listing
\* succeeded has listed every directory of the source tree
ScanOnce(t) ==
  LET r == task[t] IN
  r.call \in FolderCalls =>
    /\ \A i, j \in 1..Len(r.counted) : i # j => r.counted[i] # r.counted[j]
    /\ NoRepeatedOp(r, "readdirSync")
    /\ NoRepeatedOp(r, "list")
    /\ (r.call = "pushFolder" /\ r.scan = "ok")
         => Range(r.counted) = LocalDirsBelow(r.src)
    /\ (r.call = "pushFolder" /\ r.scan = "ok" /\ r.ret.kind = "resolved"
          /\ \A i \in OpsOf(r, {"readdirSync"}) : r.ops[i].ok)
         => OpPaths(r, "readdirSync") = LocalDirsBelow(r.src)
    /\ (r.call = "pullFolder" /\ r.scan = "ok")
         => OpPaths(r, "list") = RemoteDirsBelow(r.src)

\* the invocation t is inside countFiles, processDirectory or
\* listAndroidFilesRecursively
Scanning(t) ==
  task[t].pc \in {"pf_entry", "pd_loop", "await_mksub", "await_push",
                  "await_list", "ls_loop"}

\* C34: countFiles, processDirectory and listAndroidFilesRecursively list no
\* directory twice, list every directory of the source tree when every listing
\* succeeds, and terminate when every listing call returns.
C34_ScanTerminates ==
  /\ [](\A t \in Tasks : ScanOnce(t))
  /\ \A t \in Tasks : Scanning(t) ~> ~Scanning(t)

\* C34 witness: the push of a folder with two nested subfolders has returned
\* after countFiles and processDirectory listed three directories each
C34_Witness ==
  \E t \in Tasks :
    LET r == task[t] IN
    /\ r.call = "pushFolder" /\ r.ret.kind = "resolved"
    /\ Len(r.counted) = 3
    /\ Cardinality(OpsOf(r, {"readdirSync"})) = 3
    /\ \A i \in OpsOf(r, {"readdirSync"}) : r.ops[i].ok

\* C35: repeated Android back actions reach '/sdcard' from every path, '/sdcard'
\* is a fixed point of the back action, and '/' is never its result.
C35_BackConverges ==
  /\ [](calc.fn = "androidBack" =>
          /\ calc.out # Slash
          /\ calc.arg = Sdcard => calc.out = Sdcard)
  /\ (calc.fn = "androidBack") ~> (calc.fn = "androidBack" /\ calc.out = Sdcard)

\* C35 witness: the third back action in a row, from a path of four segments,
\* has reached '/sdcard'
C35_Witness ==
  /\ calc.fn = "androidBack" /\ calc.n = 3
  /\ calc.arg = AndroidRoot /\ calc.out = Sdcard

\* C36: at most one viewer window is open, and viewerWindow refers to the
\* viewer window that is open.
C36_SingleViewer ==
  /\ Cardinality(OpenWindows) <= 1
  /\ \A w \in OpenWindows : viewer.ref = w

----------------------------------------------------------------------------
(* C37 *)

\* a list-files request for the Android pane's directory is on its way
AndroidListingRequested ==
  \E l \in loads : l.side = "android" /\ l.path = androidPath

\* a step of the Android pane's navigation and refresh controls
AndroidPaneStep ==
  \/ AndroidBack
  \/ \E newPath \in GoPaths : AndroidGo(newPath)
  \/ \E name \in Names : ItemDoubleClick(FALSE, name)
  \/ RefreshClick

\* a scan's list-files request settles: the handler was run for the directory
\* on top of the scan's stack and its readdir calls were made at that time
ScanListsAfresh(t) ==
  task[t].pc = "await_list" /\ task'[t].pc # "await_list"
    => LET f == Top(task[t].stk)
           o == task'[t].ops[Len(task'[t].ops)]
       IN /\ Len(task'[t].ops) = Len(task[t].ops) + 1
          /\ o.op = "list" /\ o.path = f.path
          /\ \E ok1, ok2 \in BOOLEAN :
               LET reply == ListFilesHandler(f.path, ok1, ok2)
               IN /\ Len(reply.readdirs) >= 1
                  /\ o.ok = ~reply.rejected
                  /\ task'[t].pc = "ls_loop"
                       => {task'[t].stk[Len(task'[t].stk)].items[i] :
                             i \in DOMAIN task'[t].stk[Len(task'[t].stk)].items}
                          = reply.files

\* C37: remote listings are never reused: with a device selected, every Android
\* navigation and every refresh issues a list-files request for the directory
\* the pane then shows, and every directory a recursive scan visits gets a
\* list-files request of its own, answered by the readdir calls made for it
C37_ListingsNeverReused ==
  [][/\ (selectedDevice # NoDevice /\ AndroidPaneStep)
          => AndroidListingRequested'
     /\ \A t \in Tasks : ScanListsAfresh(t)]_vars

\* C37 without the refresh buttons, whose handlers stop at the call of
\* clearSelectedItems
C37_NavigationAndScanOnly ==
  [][/\ (selectedDevice # NoDevice /\ AndroidPaneStep /\ ~RefreshClick)
          => AndroidListingRequested'
     /\ \A t \in Tasks : ScanListsAfresh(t)]_vars

====
